---- MODULE Spec2Model ----
(***************************************************************************)
(* Verification model of the ai-receipt-frontend client.                   *)
(*                                                                         *)
(* Three page components are modelled, each as its own state machine over  *)
(* its own React state:                                                    *)
(*   - the dashboard (src/app/dashboard/DashboardClient.tsx): the upload   *)
(*     orchestrator handleFileSelect, the success auto-clear timer and the *)
(*     recent-receipts fetch                          -> SpecUpload        *)
(*   - the receipt detail page (src/app/receipts/[id]/page.tsx): inline    *)
(*     edit, dirty check and save                     -> SpecDetail        *)
(*   - the transactions page (TransactionsClient): selection and bulk      *)
(*     delete                                         -> SpecTx            *)
(* The stateless helpers of these pages (list normalizers, toNumber, date  *)
(* parsing and grouping) are applied to bounded sets of inputs; a state    *)
(* holds one call and its result                      -> SpecFn            *)
(*                                                                         *)
(* Every `await` of an async handler is a scheduling point: the part of a  *)
(* handler between two awaits is one action.  A state setter called on an  *)
(* unmounted component is dropped by React, so every setter is modelled    *)
(* through SetState, which keeps the old value once mounted is FALSE.      *)
(***************************************************************************)
EXTENDS Integers, Sequences, FiniteSets, TLC

\* ------------------------------------------------------------------ bounds

\* Number of file selections (runs of handleFileSelect) explored.
MaxSelections == 2

\* Number of field changes applied to one edit form of the detail page.
MaxEdits == 2

\* Number of line items an edit form may hold.
MaxItems == 2

\* Number of clicks on "Save Changes" explored.
MaxSaves == 2

\* Number of clicks on the transactions page's Delete button explored.
MaxDeletes == 2

\* Number of entries of the arrays handed to the list normalizers.
MaxEntries == 2

VARIABLES
    \* ---- dashboard (DashboardClient.tsx)
    mounted,                  \* the component instance is mounted
    uploadState,              \* useState<UploadState>("idle")
    uploadMessage,            \* useState("")
    timer,                    \* the 3 s window.setTimeout of the success effect is pending
    recentReceipts,           \* useState<Receipt[]>([])
    isLoadingRecentReceipts,  \* useState(true)
    recentReceiptsError,      \* useState("")
    mountFetch,               \* the fetchRecentReceipts() call of the mount effect
    nsel,                     \* number of handleFileSelect runs started so far
    hpc,                      \* hpc[h]: where run h of handleFileSelect stands
    hfile,                    \* hfile[h]: file.type of the file run h was given
    hslot,                    \* hslot[h]: the slot response run h received
    hput,                     \* hput[h]: outcome of run h's storage PUT
    hparse,                   \* hparse[h]: outcome of run h's parse POST
    reqs,                     \* reqs[h][k]: requests of kind k issued by run h
    \* ---- dashboard: the other mount effects (DashboardClient.tsx:336-490)
    stats,                    \* useState<ReceiptStats>({null, null})
    categoryStats,            \* useState({currency: "USD", totalSpent: null, categories: []})
    isLoadingCategoryStats,   \* useState(true)
    userInitials,             \* useState("U")
    statsFetch,               \* fetchStats(): "inflight" | "done"
    categoryFetch,            \* fetchCategoryStats(): "inflight" | "done"
    profileFetch,             \* fetchUserProfile(): "inflight" | "done"
    settled,                  \* the outcome each mount fetch settled with, if it has
    \* ---- receipt detail page (receipts/[id]/page.tsx)
    detail,                   \* useState<ReceiptDetail | null>(null)
    editDetail,               \* useState<EditableReceipt | null>(null)
    status,                   \* useState("loading")
    saveStatus,               \* useState("idle")
    saveMessage,              \* useState("")
    isEditing,                \* useState(false)
    fetchPc,                  \* the mount effect's fetchReceipt(): "inflight" | "done"
    savePending,              \* PUT /api/receipts/:id requests in flight
    saveReqs,                 \* PUT /api/receipts/:id requests issued so far
    saveClicks,               \* runs of handleSaveReceipt so far
    edits,                    \* field changes applied to the current edit form
    detailMounted,            \* the page component instance is mounted
    reviewStatus,             \* useState<"idle" | "saving" | "error">("idle")
    reviewMessage,            \* useState("")
    reviewPending,            \* `reviewed` of the bodies of the review PUTs in flight
    attachmentUrl,            \* useState("")
    attachmentStatus,         \* useState("idle")
    attachPending,            \* presign GETs in flight: of the current effect run
                              \* (live, its isMounted is true) and of earlier runs
    detailEvent,              \* the response that settled in the last step, if any
    \* ---- transactions page (TransactionsClient)
    tab,                      \* useState<"month" | "all">(initialTab)
    transactions,             \* useState<Transaction[]>([])
    txStats,                  \* useState<ReceiptStats>({null, null})  (`stats`)
    txStatus,                 \* useState("loading")                   (`status`)
    selectedIds,              \* useState<string[]>([])
    bulkDeleteStatus,         \* useState("idle")
    bulkDeleteMessage,        \* useState("")
    txFetchPc,                \* the mount effect's fetchData(): "inflight" | "done"
    deletePending,            \* the DELETE /api/receipts in flight: [active, ids]
    deleteReqs,               \* DELETE /api/receipts requests issued so far
    deleteClicks,             \* runs of handleDelete so far
    \* ---- the stateless helpers (normalizers, coercions, date grouping)
    fnCall,                   \* the call made: [fn, ...arguments]
    fnResult,                 \* what the call returned
    \* ---- the browser session (login page, logout, route protection)
    protocol,                 \* window.location.protocol
    cookie,                   \* the auth_token cookie of the browser, Null if none
    location,                 \* pathname of the page that is mounted
    navigation,               \* pathname of the navigation under way, <<>> if none
    loginStatus,              \* LoginPage: useState("idle")  (`status`)
    loginMessage,             \* LoginPage: useState("")      (`message`)
    authEvent                 \* the handler that ran last

dashVars == <<mounted, uploadState, uploadMessage, timer, recentReceipts,
              isLoadingRecentReceipts, recentReceiptsError, mountFetch,
              nsel, hpc, hfile, hslot, hput, hparse, reqs>>

\* The review and attachment state of the detail page.
detailRestVars == <<detailMounted, reviewStatus, reviewMessage, reviewPending,
                    attachmentUrl, attachmentStatus, attachPending>>

detailVars == <<detail, editDetail, status, saveStatus, saveMessage, isEditing,
                fetchPc, savePending, saveReqs, saveClicks, edits, detailRestVars,
                detailEvent>>

txVars == <<tab, transactions, txStats, txStatus, selectedIds, bulkDeleteStatus,
            bulkDeleteMessage, txFetchPc, deletePending, deleteReqs, deleteClicks>>

fnVars == <<fnCall, fnResult>>

authVars == <<protocol, cookie, location, navigation, loginStatus, loginMessage,
              authEvent>>

dashFetchVars == <<stats, categoryStats, isLoadingCategoryStats, userInitials,
                   statsFetch, categoryFetch, profileFetch, settled>>

vars == <<dashVars, dashFetchVars, detailVars, txVars, fnVars, authVars>>

\* What the actions of one page leave alone: the state of the other pages.
notDashVars == <<dashFetchVars, detailVars, txVars, fnVars, authVars>>
notDetailVars == <<dashVars, dashFetchVars, txVars, fnVars, authVars>>
notTxVars == <<dashVars, dashFetchVars, detailVars, fnVars, authVars>>
notFnVars == <<dashVars, dashFetchVars, detailVars, txVars, authVars>>
notAuthVars == <<dashVars, dashFetchVars, detailVars, txVars, fnVars>>
notPageVars == <<detailVars, txVars, fnVars, authVars>>

\* ------------------------------------------------------- dashboard: values

Handlers == 1..MaxSelections

UploadStates == {"idle", "uploading", "parsing", "success", "error"}

NoFile == "<none>"
\* file.type of the selectable files: an image, a PDF, and a file of unknown
\* type (file.type is the empty string).  The input's accept="image/*" is a
\* hint to the file picker and does not constrain what the change event
\* delivers.
FileTypes == {"image/jpeg", "application/pdf", ""}
ImageTypes == {"image/jpeg"}

IsImageType(t) == t \in ImageTypes

\* file.type || "image/jpeg"
DeclaredContentType(t) == IF t = "" THEN "image/jpeg" ELSE t

MsgPreparing == "Preparing direct upload..."
MsgUploading == "Uploading receipt image..."
MsgParsing == "Image uploaded. Parsing receipt..."
MsgSuccess == "Receipt uploaded and sent for parsing."
MsgSlotFailed == "Failed to create upload URL."
MsgPutFailed == "Failed to upload image to storage."
MsgParseFailed == "Failed to parse receipt."
MsgListFailed == "Failed to load recent documents."
MsgNetwork == "Failed to fetch"
MsgServer == "server message"

\* A slot response as handleFileSelect reads it: the HTTP status, and the
\* typeof / blankness of the three fields of the JSON body.  "missing" is
\* undefined or any value of another type (also: the body is not an object).
NoResponse == [net |-> "none"]
NetworkError == [net |-> "error"]

SlotBody(ok, imageId, objectKey, uploadUrl, message) ==
    [net |-> "response", ok |-> ok, imageId |-> imageId, objectKey |-> objectKey,
     uploadUrl |-> uploadUrl, message |-> message]

GoodSlot == SlotBody(TRUE, "number", "text", "text", "none")

SlotResponses ==
    { GoodSlot,
      SlotBody(TRUE, "string", "text", "text", "none"),
      SlotBody(FALSE, "number", "text", "text", "text"),
      SlotBody(FALSE, "missing", "missing", "missing", "text"),
      SlotBody(FALSE, "missing", "missing", "missing", "none"),
      SlotBody(TRUE, "missing", "text", "text", "none"),
      SlotBody(TRUE, "number", "blank", "text", "none"),
      SlotBody(TRUE, "number", "missing", "text", "none"),
      SlotBody(TRUE, "string", "text", "blank", "none"),
      SlotBody(TRUE, "number", "text", "missing", "text"),
      NetworkError }

\* Mutant of SlotAccepted: the blank checks (`.trim()`) are forgotten.
SlotAcceptedNoTrim(r) ==
    /\ r.net = "response"
    /\ r.ok
    /\ r.imageId \in {"number", "string"}
    /\ r.objectKey \in {"text", "blank"}
    /\ r.uploadUrl \in {"text", "blank"}

\* The condition of the `if` at DashboardClient.tsx:539-546, negated.
SlotAccepted(r) ==
    /\ r.net = "response"
    /\ r.ok
    /\ r.imageId \in {"number", "string"}
    /\ r.objectKey = "text"
    /\ r.uploadUrl = "text"

SlotErrorMessage(r) ==
    IF r.net = "error" THEN MsgNetwork
    ELSE IF r.message = "text" THEN MsgServer ELSE MsgSlotFailed

\* Outcomes of the storage PUT and of the parse POST.
PutOutcomes == {"ok", "notOk", "network"}
ParseOutcomes == {"ok", "notOkMessage", "notOk", "network"}

ParseErrorMessage(o) ==
    IF o = "network" THEN MsgNetwork
    ELSE IF o = "notOkMessage" THEN MsgServer ELSE MsgParseFailed

\* Outcomes of GET /api/receipts/me: a list payload, a body that is no JSON
\* (payload null), a non-OK status with or without a message, a network error.
ReceiptLists == { <<"r1">>, <<"r2", "r1">> }

ListOutcomes ==
    { [kind |-> "ok", list |-> l] : l \in ReceiptLists }
    \cup { [kind |-> k, list |-> <<>>] : k \in {"malformed", "notOkMessage", "notOk", "network"} }

\* Number of rows kept of the normalized list: .slice(0, 15).
RecentLimit == 15

Slice(l, n) == IF Len(l) <= n THEN l ELSE SubSeq(l, 1, n)

\* ------------------------------------------------------- dashboard: React

\* Mutant of SetState: the update is applied whether or not the component
\* is mounted.
SetStateUnmounted(old, new) == new

\* A state setter: React drops updates of an unmounted component.
SetState(old, new) == IF mounted THEN new ELSE old

\* Mutant of SuccessTimerEffect: the effect returns no cleanup, so a pending
\* timer survives the next state change.
SuccessTimerEffectNoCleanup(before, after, pending) ==
    pending \/ (after # before /\ after = "success")

\* The effect of DashboardClient.tsx:492-505, run after a render in which
\* uploadState changed from `before` to `after`: its cleanup clears the
\* pending timer, and it arms a new one when the new state is "success".
SuccessTimerEffect(before, after, pending) ==
    IF after = before THEN pending
    ELSE after = "success"

\* fetchRecentReceipts() up to its first await (DashboardClient.tsx:299-309):
\* the two setters; the GET is then in flight.
ListLoadingAfterStart == SetState(isLoadingRecentReceipts, TRUE)
ListErrorAfterStart == SetState(recentReceiptsError, "")

\* fetchRecentReceipts() after the response (DashboardClient.tsx:310-329).
ListAfter(o) ==
    IF o.kind = "ok" THEN Slice(o.list, RecentLimit)
    ELSE <<>>   \* normalizeReceipts(null) = [], and the catch sets []

ListErrorAfter(o) ==
    CASE o.kind \in {"ok", "malformed"} -> recentReceiptsError
      [] o.kind = "notOkMessage" -> MsgServer
      [] o.kind = "notOk" -> MsgListFailed
      [] o.kind = "network" -> MsgNetwork

ApplyListResponse(o) ==
    /\ recentReceipts' = SetState(recentReceipts, ListAfter(o))
    /\ recentReceiptsError' = SetState(recentReceiptsError, ListErrorAfter(o))
    /\ isLoadingRecentReceipts' = SetState(isLoadingRecentReceipts, FALSE)

ZeroReqs == [slot |-> 0, put |-> 0, parse |-> 0, refresh |-> 0]

\* Run h of handleFileSelect returns: its locals (file, the slot payload,
\* the two responses) are gone.
DropLocals(h) ==
    /\ hfile' = [hfile EXCEPT ![h] = NoFile]
    /\ hslot' = [hslot EXCEPT ![h] = NoResponse]
    /\ hput' = [hput EXCEPT ![h] = "none"]
    /\ hparse' = [hparse EXCEPT ![h] = "none"]

Issue(h, kind) == [reqs EXCEPT ![h][kind] = @ + 1]

\* The catch of handleFileSelect (DashboardClient.tsx:597-602).
FailUpload(h, message) ==
    /\ uploadState' = SetState(uploadState, "error")
    /\ uploadMessage' = SetState(uploadMessage, message)
    /\ timer' = (mounted /\ SuccessTimerEffect(uploadState, uploadState', timer))
    /\ hpc' = [hpc EXCEPT ![h] = "failed"]
    /\ DropLocals(h)

\* ------------------------------------------------------ dashboard: actions

\* The mount effect's fetchRecentReceipts() settles
\* (DashboardClient.tsx:310-334).
MountFetchSettles(o) ==
    /\ mountFetch = "inflight"
    /\ mountFetch' = "done"
    /\ ApplyListResponse(o)
    /\ UNCHANGED <<mounted, uploadState, uploadMessage, timer, nsel, hpc, hfile,
                   hslot, hput, hparse, reqs>>

MountFetchResponse(o) ==
    /\ MountFetchSettles(o)
    /\ UNCHANGED notDashVars

\* Mutant of FabEnabled: the button is never disabled.
FabAlwaysEnabled == TRUE

\* The camera button is enabled (DashboardClient.tsx:784).
FabEnabled == uploadState \notin {"uploading", "parsing"}

\* The change event of the file input: handleFileSelect up to its first
\* await (DashboardClient.tsx:507-532).
HandleFileSelect(file) ==
    /\ mounted
    /\ FabEnabled
    /\ nsel < MaxSelections
    /\ IF file = NoFile
       THEN UNCHANGED dashVars
       ELSE LET h == nsel + 1 IN
            /\ nsel' = h
            /\ hfile' = [hfile EXCEPT ![h] = file]
            /\ uploadState' = SetState(uploadState, "uploading")
            /\ uploadMessage' = SetState(uploadMessage, MsgPreparing)
            /\ timer' = (mounted /\ SuccessTimerEffect(uploadState, uploadState', timer))
            /\ hpc' = [hpc EXCEPT ![h] = "slot"]
            /\ reqs' = Issue(h, "slot")
            /\ UNCHANGED <<mounted, recentReceipts, isLoadingRecentReceipts,
                           recentReceiptsError, mountFetch, hslot, hput, hparse>>
    /\ UNCHANGED notDashVars

\* The slot request settles (DashboardClient.tsx:533-562).
SlotResponse(h, r) ==
    /\ hpc[h] = "slot"
    /\ IF SlotAccepted(r)
       THEN /\ hslot' = [hslot EXCEPT ![h] = r]
            /\ uploadMessage' = SetState(uploadMessage, MsgUploading)
            /\ hpc' = [hpc EXCEPT ![h] = "put"]
            /\ reqs' = Issue(h, "put")
            /\ UNCHANGED <<uploadState, timer, hfile, hput, hparse>>
       ELSE /\ FailUpload(h, SlotErrorMessage(r))
            /\ UNCHANGED reqs
    /\ UNCHANGED <<mounted, recentReceipts, isLoadingRecentReceipts,
                   recentReceiptsError, mountFetch, nsel>>
    /\ UNCHANGED notDashVars

\* Mutant of PutResponse: a non-success status of the storage PUT is
\* answered by sending the PUT once more.
PutResponseRetry(h, o) ==
    /\ hpc[h] = "put"
    /\ IF o = "ok"
       THEN /\ hput' = [hput EXCEPT ![h] = o]
            /\ UNCHANGED <<hfile, hslot, hparse>>
            /\ uploadState' = SetState(uploadState, "parsing")
            /\ uploadMessage' = SetState(uploadMessage, MsgParsing)
            /\ timer' = (mounted /\ SuccessTimerEffect(uploadState, uploadState', timer))
            /\ hpc' = [hpc EXCEPT ![h] = "parse"]
            /\ reqs' = Issue(h, "parse")
       ELSE IF o = "notOk" /\ reqs[h].put < 2
       THEN /\ reqs' = Issue(h, "put")
            /\ UNCHANGED <<uploadState, uploadMessage, timer, hpc, hfile, hslot,
                           hput, hparse>>
       ELSE /\ FailUpload(h, IF o = "network" THEN MsgNetwork ELSE MsgPutFailed)
            /\ UNCHANGED reqs
    /\ UNCHANGED <<mounted, recentReceipts, isLoadingRecentReceipts,
                   recentReceiptsError, mountFetch, nsel>>
    /\ UNCHANGED notDashVars

\* The storage PUT settles (DashboardClient.tsx:564-582).
PutResponse(h, o) ==
    /\ hpc[h] = "put"
    /\ IF o = "ok"
       THEN /\ hput' = [hput EXCEPT ![h] = o]
            /\ UNCHANGED <<hfile, hslot, hparse>>
            /\ uploadState' = SetState(uploadState, "parsing")
            /\ uploadMessage' = SetState(uploadMessage, MsgParsing)
            /\ timer' = (mounted /\ SuccessTimerEffect(uploadState, uploadState', timer))
            /\ hpc' = [hpc EXCEPT ![h] = "parse"]
            /\ reqs' = Issue(h, "parse")
       ELSE /\ FailUpload(h, IF o = "network" THEN MsgNetwork ELSE MsgPutFailed)
            /\ UNCHANGED reqs
    /\ UNCHANGED <<mounted, recentReceipts, isLoadingRecentReceipts,
                   recentReceiptsError, mountFetch, nsel>>
    /\ UNCHANGED notDashVars

\* Mutant of ParseResponse: fetchRecentReceipts() is called whether or not
\* the parse succeeded (as from a `finally`).
ParseResponseAlwaysRefreshes(h, o) ==
    /\ hpc[h] = "parse"
    /\ IF o = "ok"
       THEN /\ hparse' = [hparse EXCEPT ![h] = o]
            /\ UNCHANGED <<hfile, hslot, hput>>
            /\ uploadState' = SetState(uploadState, "success")
            /\ uploadMessage' = SetState(uploadMessage, MsgSuccess)
            /\ timer' = (mounted /\ SuccessTimerEffect(uploadState, uploadState', timer))
            /\ hpc' = [hpc EXCEPT ![h] = "refresh"]
       ELSE FailUpload(h, ParseErrorMessage(o))
    /\ isLoadingRecentReceipts' = ListLoadingAfterStart
    /\ recentReceiptsError' = ListErrorAfterStart
    /\ reqs' = Issue(h, "refresh")
    /\ UNCHANGED <<mounted, recentReceipts, mountFetch, nsel>>
    /\ UNCHANGED notDashVars

\* The parse request settles (DashboardClient.tsx:583-596); on success the
\* handler calls fetchRecentReceipts(), which runs to its own first await.
ParseResponse(h, o) ==
    /\ hpc[h] = "parse"
    /\ IF o = "ok"
       THEN /\ hparse' = [hparse EXCEPT ![h] = o]
            /\ UNCHANGED <<hfile, hslot, hput>>
            /\ uploadState' = SetState(uploadState, "success")
            /\ uploadMessage' = SetState(uploadMessage, MsgSuccess)
            /\ timer' = (mounted /\ SuccessTimerEffect(uploadState, uploadState', timer))
            /\ isLoadingRecentReceipts' = ListLoadingAfterStart
            /\ recentReceiptsError' = ListErrorAfterStart
            /\ hpc' = [hpc EXCEPT ![h] = "refresh"]
            /\ reqs' = Issue(h, "refresh")
       ELSE /\ FailUpload(h, ParseErrorMessage(o))
            /\ UNCHANGED <<reqs, isLoadingRecentReceipts, recentReceiptsError>>
    /\ UNCHANGED <<mounted, recentReceipts, mountFetch, nsel>>
    /\ UNCHANGED notDashVars

\* Mutant of RefreshResponse: fetchRecentReceipts rethrows, so a failed
\* refresh lands in the catch of handleFileSelect.
RefreshResponseRethrows(h, o) ==
    /\ hpc[h] = "refresh"
    /\ ApplyListResponse(o)
    /\ IF o.kind \in {"notOkMessage", "notOk", "network"}
       THEN FailUpload(h, ListErrorAfter(o))
       ELSE /\ hpc' = [hpc EXCEPT ![h] = "done"]
            /\ DropLocals(h)
            /\ UNCHANGED <<uploadState, uploadMessage, timer>>
    /\ UNCHANGED <<mounted, mountFetch, nsel, reqs>>
    /\ UNCHANGED notDashVars

\* The refresh started by run h settles; fetchRecentReceipts catches its
\* own errors, so the `await` at DashboardClient.tsx:596 never throws.
RefreshResponse(h, o) ==
    /\ hpc[h] = "refresh"
    /\ hpc' = [hpc EXCEPT ![h] = "done"]
    /\ ApplyListResponse(o)
    /\ DropLocals(h)
    /\ UNCHANGED <<mounted, uploadState, uploadMessage, timer, mountFetch, nsel,
                   reqs>>
    /\ UNCHANGED notDashVars

\* The 3 s timer of the success effect fires (DashboardClient.tsx:497-500).
TimerFire ==
    /\ timer
    /\ uploadState' = SetState(uploadState, "idle")
    /\ uploadMessage' = SetState(uploadMessage, "")
    /\ timer' = FALSE
    /\ UNCHANGED <<mounted, recentReceipts, isLoadingRecentReceipts,
                   recentReceiptsError, mountFetch, nsel, hpc, hfile, hslot,
                   hput, hparse, reqs>>
    /\ UNCHANGED notDashVars

\* Navigation away: the effect cleanups run (DashboardClient.tsx:502-504);
\* requests in flight are not aborted.
Unmount ==
    /\ mounted
    /\ mounted' = FALSE
    /\ timer' = FALSE
    /\ UNCHANGED <<uploadState, uploadMessage, recentReceipts,
                   isLoadingRecentReceipts, recentReceiptsError, mountFetch,
                   nsel, hpc, hfile, hslot, hput, hparse, reqs>>
    /\ UNCHANGED notDashVars

\* ================================================================= values
\* Strings whose characters the code looks at (trim, Number) are sequences
\* of one-character strings; T("...") is not available in TLA+, so the texts
\* used are written out.  A number is a decimal [m, e] standing for
\* m * 10^-e, kept normalized (no trailing zero in the fraction), so that
\* two numbers are === exactly when the records are equal.  NaN and null
\* are values of their own.

Null == [t |-> "null"]
NaN == [t |-> "nan"]

Digits == {"0", "1", "2", "3", "4", "5", "6", "7", "8", "9"}

DigitValue(c) ==
    CASE c = "0" -> 0 [] c = "1" -> 1 [] c = "2" -> 2 [] c = "3" -> 3
      [] c = "4" -> 4 [] c = "5" -> 5 [] c = "6" -> 6 [] c = "7" -> 7
      [] c = "8" -> 8 [] c = "9" -> 9

DigitChar(d) ==
    CASE d = 0 -> "0" [] d = 1 -> "1" [] d = 2 -> "2" [] d = 3 -> "3"
      [] d = 4 -> "4" [] d = 5 -> "5" [] d = 6 -> "6" [] d = 7 -> "7"
      [] d = 8 -> "8" [] d = 9 -> "9"

RECURSIVE Normalize(_, _)
Normalize(m, e) ==
    IF m = 0 THEN [t |-> "num", m |-> 0, e |-> 0]
    ELSE IF e > 0 /\ m % 10 = 0 THEN Normalize(m \div 10, e - 1)
    ELSE [t |-> "num", m |-> m, e |-> e]

Num(m, e) == Normalize(m, e)

IsWhite(c) == c \in {" ", "\t", "\n", "\r"}

\* String.prototype.trim
RECURSIVE TrimLeft(_)
TrimLeft(s) ==
    IF s # <<>> /\ IsWhite(Head(s)) THEN TrimLeft(Tail(s)) ELSE s

RECURSIVE TrimRight(_)
TrimRight(s) ==
    IF s # <<>> /\ IsWhite(s[Len(s)]) THEN TrimRight(SubSeq(s, 1, Len(s) - 1)) ELSE s

Trim(s) == TrimRight(TrimLeft(s))

RECURSIVE DigitsValue(_)
DigitsValue(s) ==
    IF s = <<>> THEN 0
    ELSE 10 * DigitsValue(SubSeq(s, 1, Len(s) - 1)) + DigitValue(s[Len(s)])

AllDigits(s) == \A i \in 1..Len(s) : s[i] \in Digits

DotPositions(s) == { i \in 1..Len(s) : s[i] = "." }

\* An unsigned StrDecimalLiteral without exponent: digits, digits "." digits
\* (either side may be empty, not both).
UnsignedDecimal(s) ==
    LET dots == DotPositions(s) IN
    IF dots = {} THEN
        IF s # <<>> /\ AllDigits(s) THEN Num(DigitsValue(s), 0) ELSE NaN
    ELSE IF Cardinality(dots) > 1 THEN NaN
    ELSE LET d == CHOOSE i \in dots : TRUE
             ip == SubSeq(s, 1, d - 1)
             fp == SubSeq(s, d + 1, Len(s))
         IN  IF AllDigits(ip) /\ AllDigits(fp) /\ Len(ip) + Len(fp) > 0
             THEN Num(DigitsValue(ip \o fp), Len(fp))
             ELSE NaN

Negate(n) == IF n.t = "num" THEN Num(0 - n.m, n.e) ELSE n

\* Number(string): white space is trimmed, the empty string is 0, a signed
\* decimal literal is its value, anything else is NaN.  (Exponents, hex
\* literals and "Infinity" are outside the texts modelled.)
NumberOfString(s) ==
    LET t == Trim(s) IN
    IF t = <<>> THEN Num(0, 0)
    ELSE IF Head(t) = "-" THEN Negate(UnsignedDecimal(Tail(t)))
    ELSE IF Head(t) = "+" THEN UnsignedDecimal(Tail(t))
    ELSE UnsignedDecimal(t)

IsFinite(n) == n.t = "num"

RECURSIVE NatDigits(_)
NatDigits(n) ==
    IF n < 10 THEN <<DigitChar(n)>> ELSE NatDigits(n \div 10) \o <<DigitChar(n % 10)>>

RECURSIVE PadLeft(_, _)
PadLeft(s, n) == IF Len(s) >= n THEN s ELSE PadLeft(<<"0">> \o s, n)

\* String(number) for a finite number of ordinary magnitude: no exponent,
\* no trailing zeros, "-" for negatives.
StringOfNumber(n) ==
    LET a == IF n.m < 0 THEN 0 - n.m ELSE n.m
        ds == PadLeft(NatDigits(a), n.e + 1)
        ip == SubSeq(ds, 1, Len(ds) - n.e)
        fp == SubSeq(ds, Len(ds) - n.e + 1, Len(ds))
        body == IF n.e = 0 THEN ip ELSE ip \o <<".">> \o fp
    IN  IF n.m < 0 THEN <<"-">> \o body ELSE body

\* JSON values of a payload: a number, a string, a boolean, or Null for
\* null, undefined and every other type the readers do not accept.
JNum(n) == [t |-> "jnum", v |-> n]
JStr(s) == [t |-> "jstr", v |-> s]
JBool(b) == [t |-> "jbool", v |-> b]

\* toNumber(value) (receipts/[id]/page.tsx:59-68)
toNumber(value) ==
    IF value.t = "jnum" /\ IsFinite(value.v) THEN value.v
    ELSE IF value.t = "jstr"
         THEN LET parsed == NumberOfString(value.v) IN
              IF IsFinite(parsed) THEN parsed ELSE Null
         ELSE Null

\* String.prototype.startsWith
StartsWith(s, prefix) ==
    Len(s) >= Len(prefix) /\ SubSeq(s, 1, Len(prefix)) = prefix

\* toString(value) (receipts/[id]/page.tsx:55-57)
toString(value) == IF value.t = "jstr" THEN value.v ELSE <<>>

\* toBoolean(value) (receipts/[id]/page.tsx:70-72); a boolean stays JBool(b)
toBoolean(value) == IF value.t = "jbool" THEN value ELSE Null

\* toComparableNumber(value) (receipts/[id]/page.tsx:177-180)
toComparableNumber(value) ==
    LET parsed == NumberOfString(value) IN
    IF IsFinite(parsed) THEN parsed ELSE Null

\* ============================================ receipt detail page: values
\* (src/app/receipts/[id]/page.tsx)

\* Texts
TxtEmpty == <<>>
TxtAb == <<"A", "b">>
TxtAbSp == <<"A", "b", " ">>
TxtSpAb == <<" ", "A", "b">>
TxtCd == <<"C", "d">>
TxtUSD == <<"U", "S", "D">>
TxtMilk == <<"M", "i", "l", "k">>
TxtMilkSp == <<"M", "i", "l", "k", " ">>
TxtTea == <<"T", "e", "a">>
TxtItem == <<"I", "t", "e", "m">>
TxtUnknownMerchant == <<"U", "n", "k", "n", "o", "w", "n">>
Txt1 == <<"1">>
Txt1p0 == <<"1", ".", "0">>
Txt2 == <<"2">>
Txt12 == <<"1", "2">>
Txt12p0 == <<"1", "2", ".", "0">>
Txt12p00 == <<"1", "2", ".", "0", "0">>
Txt13 == <<"1", "3">>
Txt1p50 == <<"1", ".", "5", "0">>
Txt13p50 == <<"1", "3", ".", "5", "0">>

\* Dates are opaque texts; what Date.parse and toISOString make of them is
\* tabulated: a date-only ISO string is UTC midnight of that day, a
\* date-time with an offset is converted to UTC, other text does not parse.
DateDay == "2024-01-31"
DateLate == "2024-01-31T23:30:00-05:00"
DateText == "last week"
DateEdited == "2024-02-01"

\* toDateInputValue(value) (receipts/[id]/page.tsx:100-109)
toDateInputValue(value) ==
    CASE value = "" -> ""
      [] value = DateDay -> "2024-01-31"
      [] value = DateLate -> "2024-02-01"
      [] value = DateEdited -> "2024-02-01"
      [] OTHER -> value

\* toString for the date field, whose text is kept opaque.
DateOfJson(value) == IF value.t = "jdate" THEN value.v ELSE ""
JDate(d) == [t |-> "jdate", v |-> d]

\* a ?? b
Coalesce(a, b) == IF a # Null THEN a ELSE b

\* x || fallback for a text
OrText(x, fallback) == IF x # <<>> THEN x ELSE fallback

\* JavaScript truthiness of a number | null
Truthy(n) == n # Null /\ n # Num(0, 0)

ItemPayload(d, q, u, p) ==
    [description |-> d, quantity |-> q, unitPrice |-> u, totalPrice |-> p]

DetailPayload(id, merchant, date, currency, reviewed, sub, tax, total, items) ==
    [receiptId |-> id, merchantName |-> merchant, receiptDate |-> date,
     currency |-> currency, imageId |-> Null, image_id |-> Null,
     imageObjectId |-> Null, imageObjectImageId |-> Null, imageUrl |-> Null,
     reviewed |-> reviewed, subtotal |-> sub, tax |-> tax, total |-> total,
     items |-> items]

\* Bodies the backend may answer GET and PUT /api/receipts/:id with.
PayloadFull ==
    DetailPayload(JNum(Num(7, 0)), JStr(TxtAb), JDate(DateDay), JStr(TxtUSD),
                  JBool(FALSE), JNum(Num(12, 0)), JNum(Num(15, 1)), JStr(Txt13p50),
                  <<ItemPayload(JStr(TxtMilk), JNum(Num(1, 0)), JNum(Num(12, 0)),
                                JNum(Num(12, 0)))>>)
PayloadSparse ==
    DetailPayload(JNum(Num(7, 0)), JStr(TxtAb), JDate(DateLate), Null,
                  Null, JNum(Num(12, 0)), Null, JNum(Num(12, 0)), <<>>)
PayloadNoId ==
    DetailPayload(Null, JStr(TxtCd), JDate(DateText), JStr(TxtUSD),
                  JBool(TRUE), JNum(Num(12, 0)), JNum(Num(0, 0)), JNum(Num(12, 0)),
                  <<ItemPayload(JStr(TxtTea), JNum(Num(2, 0)), JNum(Num(1, 0)),
                                JNum(Num(2, 0)))>>)
PayloadSpaced ==
    DetailPayload(JStr(Txt12), JStr(TxtSpAb), Null, JStr(TxtUSD),
                  JBool(TRUE), JNum(Num(13, 0)), JNum(Num(0, 0)), JNum(Num(13, 0)),
                  <<Null, ItemPayload(Null, JNum(Num(1, 0)), Null, JStr(TxtAb))>>)

DetailPayloads == {PayloadFull, PayloadSparse, PayloadNoId, PayloadSpaced}

\* The same receipt with an image that needs a presigned URL (a stored
\* path), or with an image the backend already links; the first one is
\* marked reviewed.
TxtStoredPath == <<"/", "r.jpg">>
TxtLinkedUrl == <<"https://", "cdn/", "r.jpg">>
PayloadImage ==
    [PayloadFull EXCEPT !.imageId = JNum(Num(5, 0)), !.imageUrl = JStr(TxtStoredPath),
                        !.reviewed = JBool(TRUE)]
PayloadLinked ==
    [PayloadFull EXCEPT !.imageId = JNum(Num(5, 0)), !.imageUrl = JStr(TxtLinkedUrl)]

ImagePayloads == {PayloadFull, PayloadImage, PayloadLinked}

\* buildReceiptDetail: one raw item (page.tsx:122-133); Null is an entry
\* that is no object.
BuildItem(raw) ==
    [description |-> OrText(toString(raw.description), TxtItem),
     quantity |-> toNumber(raw.quantity),
     unitPrice |-> toNumber(raw.unitPrice),
     totalPrice |-> toNumber(raw.totalPrice)]

RECURSIVE BuildItems(_)
BuildItems(raws) ==
    IF raws = <<>> THEN <<>>
    ELSE IF Head(raws) = Null THEN BuildItems(Tail(raws))
    ELSE <<BuildItem(Head(raws))>> \o BuildItems(Tail(raws))

\* buildReceiptDetail(payloadObject) (page.tsx:119-157)
buildReceiptDetail(p) ==
    [receiptId |-> toNumber(p.receiptId),
     merchantName |-> OrText(toString(p.merchantName), TxtUnknownMerchant),
     receiptDate |-> DateOfJson(p.receiptDate),
     currency |-> toString(p.currency),
     imageId |-> toNumber(Coalesce(p.imageId, Coalesce(p.image_id,
                    Coalesce(p.imageObjectId, p.imageObjectImageId)))),
     imageUrl |-> toString(p.imageUrl),
     reviewed |-> toBoolean(p.reviewed),
     subtotal |-> toNumber(p.subtotal),
     tax |-> toNumber(p.tax),
     total |-> toNumber(p.total),
     items |-> BuildItems(p.items)]

\* number | null to the text of an edit field (page.tsx:164)
EditText(n) == IF n = Null THEN <<>> ELSE StringOfNumber(n)

\* buildEditableReceipt(source) (page.tsx:159-175).  The items' `id`
\* (a render key made of the description, the index and Date.now()) is
\* read by no handler and is left out.
buildEditableReceipt(source) ==
    [merchantName |-> source.merchantName,
     receiptDate |-> toDateInputValue(source.receiptDate),
     currency |-> source.currency,
     subtotal |-> EditText(source.subtotal),
     tax |-> EditText(source.tax),
     total |-> EditText(source.total),
     items |-> [i \in 1..Len(source.items) |->
                  [description |-> source.items[i].description,
                   quantity |-> EditText(source.items[i].quantity),
                   unitPrice |-> EditText(source.items[i].unitPrice),
                   totalPrice |-> EditText(source.items[i].totalPrice)]]]

\* The loop body of isReceiptEdited (page.tsx:204-222)
ItemEdited(left, right) ==
    \/ left.description # Trim(right.description)
    \/ left.quantity # toComparableNumber(right.quantity)
    \/ left.unitPrice # toComparableNumber(right.unitPrice)
    \/ left.totalPrice # toComparableNumber(right.totalPrice)

\* isReceiptEdited(detail, editDetail) (page.tsx:182-224)
isReceiptEdited(d, e) ==
    \/ d.merchantName # Trim(e.merchantName)
    \/ toDateInputValue(d.receiptDate) # e.receiptDate
    \/ d.currency # Trim(e.currency)
    \/ d.subtotal # toComparableNumber(e.subtotal)
    \/ d.tax # toComparableNumber(e.tax)
    \/ d.total # toComparableNumber(e.total)
    \/ Len(d.items) # Len(e.items)
    \/ \E i \in 1..Len(d.items) : ItemEdited(d.items[i], e.items[i])

\* =========================================== receipt detail page: actions

MsgNoChanges == "No changes to save."
MsgSaved == "Receipt updated."
MsgSaveFailed == "Failed to update receipt."
MsgServerError == "server error"

\* Outcomes of GET /api/receipts/:id.
FetchOutcomes ==
    { [kind |-> "ok", payload |-> p] : p \in DetailPayloads }
    \cup { [kind |-> k, payload |-> Null] : k \in {"notObject", "notOk", "network"} }

\* Outcomes of PUT /api/receipts/:id: an OK status with an object body or
\* with a body that is no object, a non-OK status carrying `error`,
\* `message` or neither, a network error.
SaveOutcomes ==
    { [kind |-> "ok", payload |-> p] : p \in DetailPayloads }
    \cup { [kind |-> k, payload |-> Null] :
             k \in {"notObject", "notOkError", "notOkMessage", "notOk", "network"} }

SaveErrorMessage(o) ==
    CASE o.kind = "notOkError" -> MsgServerError
      [] o.kind = "notOkMessage" -> MsgServer
      [] o.kind = "network" -> MsgNetwork
      [] OTHER -> MsgSaveFailed

\* A state setter of the detail page: React drops updates of an unmounted
\* component.
SetDetailState(old, new) == IF detailMounted THEN new ELSE old

NoEvent == [kind |-> "none"]

\* !value for a boolean | null
Not(value) == IF value = Null THEN TRUE ELSE ~value.v

\* What GET /api/images/:id/presigned-url yields on success.
PresignedUrl == <<"https://", "signed/", "r.jpg">>
NoAttachment == [live |-> FALSE, stale |-> 0]

\* The dependencies of the attachment effect (page.tsx:371):
\* detail?.imageId and detail?.imageUrl, both undefined while detail is null.
AttachmentDeps(d) == IF d = Null THEN <<>> ELSE <<d.imageId, d.imageUrl>>

\* The attachment effect (page.tsx:323-371) after a render in which detail
\* went from `before` to `after`: when a dependency changed, the cleanup of
\* the previous run clears that run's isMounted and fetchAttachment runs to
\* its first await.
AttachmentEffect(before, after) ==
    IF ~detailMounted \/ AttachmentDeps(after) = AttachmentDeps(before)
    THEN UNCHANGED <<attachmentUrl, attachmentStatus, attachPending>>
    ELSE LET rawUrl == after.imageUrl
             cleaned == [live |-> FALSE,
                         stale |-> attachPending.stale
                                     + (IF attachPending.live THEN 1 ELSE 0)]
         IN  IF rawUrl # <<>> /\ (StartsWith(rawUrl, <<"http://">>)
                                 \/ StartsWith(rawUrl, <<"https://">>))
             THEN /\ attachmentUrl' = rawUrl
                  /\ attachmentStatus' = "success"
                  /\ attachPending' = cleaned
             ELSE IF ~Truthy(after.imageId)
             THEN /\ attachmentUrl' = <<>>
                  /\ attachmentStatus' = "idle"
                  /\ attachPending' = cleaned
             ELSE /\ attachmentStatus' = "loading"
                  /\ attachPending' = [cleaned EXCEPT !.live = TRUE]
                  /\ UNCHANGED attachmentUrl

\* fetchReceipt() of the mount effect settles (page.tsx:268-294); its
\* isMounted is cleared by the cleanup of the effect.
FetchReceiptResponse(o) ==
    /\ fetchPc = "inflight"
    /\ fetchPc' = "done"
    /\ detailEvent' = [kind |-> "fetch", outcome |-> o]
    /\ IF ~detailMounted
       THEN UNCHANGED <<detail, editDetail, status, saveStatus, saveMessage, isEditing,
                        edits, reviewStatus, reviewMessage, attachmentUrl,
                        attachmentStatus, attachPending>>
       ELSE IF o.kind = "ok"
       THEN /\ detail' = buildReceiptDetail(o.payload)
            /\ editDetail' = buildEditableReceipt(detail')
            /\ status' = "success"
            /\ reviewStatus' = "idle"
            /\ reviewMessage' = ""
            /\ saveStatus' = "idle"
            /\ saveMessage' = ""
            /\ isEditing' = FALSE
            /\ edits' = 0
            /\ AttachmentEffect(detail, buildReceiptDetail(o.payload))
       ELSE /\ status' = "error"
            /\ UNCHANGED <<detail, editDetail, saveStatus, saveMessage, isEditing, edits,
                           reviewStatus, reviewMessage, attachmentUrl,
                           attachmentStatus, attachPending>>
    /\ UNCHANGED <<savePending, saveReqs, saveClicks, detailMounted, reviewPending>>
    /\ UNCHANGED notDetailVars

\* A handler of the edit form runs in the mounted component and leaves the
\* review and attachment state alone.
EditHandler ==
    /\ detailMounted
    /\ detailEvent' = NoEvent
    /\ UNCHANGED detailRestVars

\* The detail sections are rendered (page.tsx:621).
DetailShown == status = "success" /\ detail # Null

\* handleStartEdit (page.tsx:497-505), behind the Edit button (page.tsx:600-613).
HandleStartEdit ==
    /\ ~isEditing
    /\ DetailShown
    /\ editDetail' = buildEditableReceipt(detail)
    /\ saveStatus' = "idle"
    /\ saveMessage' = ""
    /\ isEditing' = TRUE
    /\ edits' = 0
    /\ UNCHANGED <<detail, status, fetchPc, savePending, saveReqs, saveClicks>>
    /\ EditHandler
    /\ UNCHANGED notDetailVars

\* handleCancelEdit (page.tsx:507-516), behind the Cancel button.
HandleCancelEdit ==
    /\ isEditing
    /\ IF detail = Null
       THEN /\ isEditing' = FALSE
            /\ UNCHANGED <<editDetail, saveStatus, saveMessage, edits>>
       ELSE /\ editDetail' = buildEditableReceipt(detail)
            /\ saveStatus' = "idle"
            /\ saveMessage' = ""
            /\ isEditing' = FALSE
            /\ edits' = 0
    /\ UNCHANGED <<detail, status, fetchPc, savePending, saveReqs, saveClicks>>
    /\ EditHandler
    /\ UNCHANGED notDetailVars

\* The edit inputs are rendered (page.tsx:642, 763).
FormShown == DetailShown /\ isEditing /\ editDetail # Null

TopFields == {"merchantName", "receiptDate", "subtotal", "tax", "total"}
ItemFields == {"description", "quantity", "unitPrice", "totalPrice"}

\* What the user may type into each input.  The numeric inputs are
\* type="number": their value is the empty string or a decimal literal.
TopFieldValues(f) ==
    CASE f = "merchantName" -> {TxtAbSp, TxtCd}
      [] f = "receiptDate" -> {DateEdited}
      [] f = "subtotal" -> {TxtEmpty, Txt12p0, Txt12p00, Txt13}
      [] f = "tax" -> {TxtEmpty, Txt1p50}
      [] f = "total" -> {Txt13p50}

ItemFieldValues(f) ==
    CASE f = "description" -> {TxtMilkSp, TxtTea}
      [] f = "quantity" -> {Txt1p0, Txt2}
      [] f = "unitPrice" -> {Txt12p00}
      [] f = "totalPrice" -> {TxtEmpty}

\* onChange of a top-level input (page.tsx:647-743).
HandleFieldChange(f, v) ==
    /\ FormShown
    /\ edits < MaxEdits
    /\ editDetail' = [editDetail EXCEPT ![f] = v]
    /\ edits' = edits + 1
    /\ UNCHANGED <<detail, status, saveStatus, saveMessage, isEditing, fetchPc,
                   savePending, saveReqs, saveClicks>>
    /\ EditHandler
    /\ UNCHANGED notDetailVars

\* handleItemChange(index, field, value) (page.tsx:518-531); index is
\* 1-based here.
HandleItemChange(i, f, v) ==
    /\ FormShown
    /\ edits < MaxEdits
    /\ i \in 1..Len(editDetail.items)
    /\ editDetail' = [editDetail EXCEPT !.items[i][f] = v]
    /\ edits' = edits + 1
    /\ UNCHANGED <<detail, status, saveStatus, saveMessage, isEditing, fetchPc,
                   savePending, saveReqs, saveClicks>>
    /\ EditHandler
    /\ UNCHANGED notDetailVars

NewItem == [description |-> <<>>, quantity |-> <<>>, unitPrice |-> <<>>,
            totalPrice |-> <<>>]

\* handleItemAdd (page.tsx:533-552)
HandleItemAdd ==
    /\ FormShown
    /\ edits < MaxEdits
    /\ Len(editDetail.items) < MaxItems
    /\ editDetail' = [editDetail EXCEPT !.items = Append(@, NewItem)]
    /\ edits' = edits + 1
    /\ UNCHANGED <<detail, status, saveStatus, saveMessage, isEditing, fetchPc,
                   savePending, saveReqs, saveClicks>>
    /\ EditHandler
    /\ UNCHANGED notDetailVars

RemoveAt(seq, i) == SubSeq(seq, 1, i - 1) \o SubSeq(seq, i + 1, Len(seq))

\* handleItemRemove(index) (page.tsx:554-562)
HandleItemRemove(i) ==
    /\ FormShown
    /\ edits < MaxEdits
    /\ i \in 1..Len(editDetail.items)
    /\ editDetail' = [editDetail EXCEPT !.items = RemoveAt(@, i)]
    /\ edits' = edits + 1
    /\ UNCHANGED <<detail, status, saveStatus, saveMessage, isEditing, fetchPc,
                   savePending, saveReqs, saveClicks>>
    /\ EditHandler
    /\ UNCHANGED notDetailVars

\* The Save Changes button is rendered and enabled (page.tsx:859-868).
SaveButtonEnabled == FormShown /\ saveStatus # "saving"

\* Mutant of HandleSaveReceipt: the dirty check is skipped and every save
\* is sent.
HandleSaveReceiptAlwaysSends ==
    /\ SaveButtonEnabled
    /\ saveClicks < MaxSaves
    /\ saveClicks' = saveClicks + 1
    /\ IF ~Truthy(detail.receiptId) \/ editDetail = Null \/ saveStatus = "saving"
       THEN UNCHANGED <<saveStatus, saveMessage, savePending, saveReqs>>
       ELSE /\ saveStatus' = "saving"
            /\ saveMessage' = ""
            /\ savePending' = savePending + 1
            /\ saveReqs' = saveReqs + 1
    /\ UNCHANGED <<detail, editDetail, status, isEditing, fetchPc, edits>>
    /\ EditHandler
    /\ UNCHANGED notDetailVars

\* handleSaveReceipt up to its await (page.tsx:427-467).
HandleSaveReceipt ==
    /\ SaveButtonEnabled
    /\ saveClicks < MaxSaves
    /\ saveClicks' = saveClicks + 1
    /\ IF ~Truthy(detail.receiptId) \/ editDetail = Null \/ saveStatus = "saving"
       THEN UNCHANGED <<saveStatus, saveMessage, savePending, saveReqs>>
       ELSE IF ~isReceiptEdited(detail, editDetail)
       THEN /\ saveStatus' = "idle"
            /\ saveMessage' = MsgNoChanges
            /\ UNCHANGED <<savePending, saveReqs>>
       ELSE /\ saveStatus' = "saving"
            /\ saveMessage' = ""
            /\ savePending' = savePending + 1
            /\ saveReqs' = saveReqs + 1
    /\ UNCHANGED <<detail, editDetail, status, isEditing, fetchPc, edits>>
    /\ EditHandler
    /\ UNCHANGED notDetailVars

\* Mutant of SaveResponse: the response is merged into the previous detail
\* (a tax the response leaves null keeps its previous value).
SaveResponseMerging(o) ==
    /\ savePending > 0
    /\ savePending' = savePending - 1
    /\ detailEvent' = [kind |-> "save", outcome |-> o]
    /\ IF o.kind = "ok"
       THEN /\ detail' = SetDetailState(detail,
                             [buildReceiptDetail(o.payload) EXCEPT
                                 !.tax = Coalesce(@, detail.tax)])
            /\ editDetail' = SetDetailState(editDetail, buildEditableReceipt(detail'))
            /\ saveStatus' = SetDetailState(saveStatus, "success")
            /\ saveMessage' = SetDetailState(saveMessage, MsgSaved)
            /\ isEditing' = SetDetailState(isEditing, FALSE)
            /\ edits' = SetDetailState(edits, 0)
            /\ AttachmentEffect(detail, buildReceiptDetail(o.payload))
       ELSE /\ saveStatus' = SetDetailState(saveStatus, "error")
            /\ saveMessage' = SetDetailState(saveMessage, SaveErrorMessage(o))
            /\ UNCHANGED <<detail, editDetail, isEditing, edits, attachmentUrl,
                           attachmentStatus, attachPending>>
    /\ UNCHANGED <<status, fetchPc, saveReqs, saveClicks, detailMounted, reviewStatus,
                   reviewMessage, reviewPending>>
    /\ UNCHANGED notDetailVars

\* A save request settles (page.tsx:468-494); the setters are called
\* whether or not the component is still mounted, and the attachment effect
\* runs after the render.
SaveResponse(o) ==
    /\ savePending > 0
    /\ savePending' = savePending - 1
    /\ detailEvent' = [kind |-> "save", outcome |-> o]
    /\ IF o.kind = "ok"
       THEN /\ detail' = SetDetailState(detail, buildReceiptDetail(o.payload))
            /\ editDetail' = SetDetailState(editDetail,
                                 buildEditableReceipt(buildReceiptDetail(o.payload)))
            /\ saveStatus' = SetDetailState(saveStatus, "success")
            /\ saveMessage' = SetDetailState(saveMessage, MsgSaved)
            /\ isEditing' = SetDetailState(isEditing, FALSE)
            /\ edits' = SetDetailState(edits, 0)
            /\ AttachmentEffect(detail, buildReceiptDetail(o.payload))
       ELSE /\ saveStatus' = SetDetailState(saveStatus, "error")
            /\ saveMessage' = SetDetailState(saveMessage, SaveErrorMessage(o))
            /\ UNCHANGED <<detail, editDetail, isEditing, edits, attachmentUrl,
                           attachmentStatus, attachPending>>
    /\ UNCHANGED <<status, fetchPc, saveReqs, saveClicks, detailMounted, reviewStatus,
                   reviewMessage, reviewPending>>
    /\ UNCHANGED notDetailVars

MsgReviewUpdated == "Review status updated."
MsgReviewFailed == "Failed to update review status."

\* The review button is rendered and enabled (page.tsx:873-880).
ReviewButtonEnabled == DetailShown /\ reviewStatus # "saving"

\* handleReviewToggle up to its await (page.tsx:384-402): the body carries
\* !detail.reviewed of the render the click happened in.
HandleReviewToggle ==
    /\ detailMounted
    /\ ReviewButtonEnabled
    /\ detailEvent' = NoEvent
    /\ IF ~Truthy(detail.receiptId) \/ reviewStatus = "saving"
       THEN UNCHANGED <<reviewStatus, reviewMessage, reviewPending>>
       ELSE /\ reviewStatus' = "saving"
            /\ reviewMessage' = ""
            /\ reviewPending' = Append(reviewPending, Not(detail.reviewed))
    /\ UNCHANGED <<detail, editDetail, status, saveStatus, saveMessage, isEditing,
                   fetchPc, savePending, saveReqs, saveClicks, edits, detailMounted,
                   attachmentUrl, attachmentStatus, attachPending>>
    /\ UNCHANGED notDetailVars

\* Outcomes of PUT /api/receipts/:id/review: an OK status, a non-OK status
\* with or without `message`, a network error.
ReviewOutcomes == {"ok", "notOkMessage", "notOk", "network"}

ReviewErrorMessage(o) ==
    CASE o = "notOkMessage" -> MsgServer
      [] o = "network" -> MsgNetwork
      [] OTHER -> MsgReviewFailed

\* The review request settles (page.tsx:403-424): on success the updater
\* negates `reviewed` of the detail of that moment.  The dependencies of
\* the attachment effect do not change.
ReviewResponse(o) ==
    /\ reviewPending # <<>>
    /\ reviewPending' = Tail(reviewPending)
    /\ detailEvent' = [kind |-> "review", outcome |-> o, sent |-> Head(reviewPending)]
    /\ IF o = "ok"
       THEN /\ detail' = SetDetailState(detail,
                             IF detail # Null
                             THEN [detail EXCEPT !.reviewed = JBool(Not(@))]
                             ELSE detail)
            /\ reviewStatus' = SetDetailState(reviewStatus, "idle")
            /\ reviewMessage' = SetDetailState(reviewMessage, MsgReviewUpdated)
       ELSE /\ reviewStatus' = SetDetailState(reviewStatus, "error")
            /\ reviewMessage' = SetDetailState(reviewMessage, ReviewErrorMessage(o))
            /\ UNCHANGED detail
    /\ UNCHANGED <<editDetail, status, saveStatus, saveMessage, isEditing, fetchPc,
                   savePending, saveReqs, saveClicks, edits, detailMounted,
                   attachmentUrl, attachmentStatus, attachPending>>
    /\ UNCHANGED notDetailVars

PresignOutcomes == {"ok", "failed"}

\* The presign request of the current run of the attachment effect settles
\* (page.tsx:346-363); "failed" is a non-OK status, a body without a url
\* text or a network error.
AttachmentResponse(o) ==
    /\ attachPending.live
    /\ attachPending' = [attachPending EXCEPT !.live = FALSE]
    /\ detailEvent' = [kind |-> "presign", outcome |-> o, live |-> TRUE]
    /\ IF o = "ok"
       THEN /\ attachmentUrl' = PresignedUrl
            /\ attachmentStatus' = "success"
       ELSE /\ attachmentUrl' = <<>>
            /\ attachmentStatus' = "error"
    /\ UNCHANGED <<detail, editDetail, status, saveStatus, saveMessage, isEditing,
                   fetchPc, savePending, saveReqs, saveClicks, edits, detailMounted,
                   reviewStatus, reviewMessage, reviewPending>>
    /\ UNCHANGED notDetailVars

\* The presign request of a run whose isMounted was cleared settles
\* (page.tsx:349-351, 357-359): it returns without a setter.
StaleAttachmentResponse(o) ==
    /\ attachPending.stale > 0
    /\ attachPending' = [attachPending EXCEPT !.stale = @ - 1]
    /\ detailEvent' = [kind |-> "presign", outcome |-> o, live |-> FALSE]
    /\ UNCHANGED <<detail, editDetail, status, saveStatus, saveMessage, isEditing,
                   fetchPc, savePending, saveReqs, saveClicks, edits, detailMounted,
                   reviewStatus, reviewMessage, reviewPending, attachmentUrl,
                   attachmentStatus>>
    /\ UNCHANGED notDetailVars

\* Navigation away from the detail page: the cleanups of the two effects
\* clear their isMounted (page.tsx:299-301, 368-370); requests in flight
\* are not aborted.
DetailUnmount ==
    /\ detailMounted
    /\ detailMounted' = FALSE
    /\ attachPending' = [live |-> FALSE,
                         stale |-> attachPending.stale
                                     + (IF attachPending.live THEN 1 ELSE 0)]
    /\ detailEvent' = NoEvent
    /\ UNCHANGED <<detail, editDetail, status, saveStatus, saveMessage, isEditing,
                   fetchPc, savePending, saveReqs, saveClicks, edits, reviewStatus,
                   reviewMessage, reviewPending, attachmentUrl, attachmentStatus>>
    /\ UNCHANGED notDetailVars

DetailInit ==
    /\ detail = Null
    /\ editDetail = Null
    /\ status = "loading"
    /\ saveStatus = "idle"
    /\ saveMessage = ""
    /\ isEditing = FALSE
    /\ fetchPc = "inflight"
    /\ savePending = 0
    /\ saveReqs = 0
    /\ saveClicks = 0
    /\ edits = 0
    /\ detailMounted = TRUE
    /\ reviewStatus = "idle"
    /\ reviewMessage = ""
    /\ reviewPending = <<>>
    /\ attachmentUrl = <<>>
    /\ attachmentStatus = "idle"
    /\ attachPending = NoAttachment
    /\ detailEvent = NoEvent

\* The requests of the detail page and its unmount, on receipts with and
\* without an image and with one edit of the form.
DetailRequestsNext ==
    \/ \E o \in { f \in FetchOutcomes : f.kind # "ok" }
                   \cup { [kind |-> "ok", payload |-> p] : p \in ImagePayloads } :
          FetchReceiptResponse(o)
    \/ HandleStartEdit
    \/ HandleCancelEdit
    \/ HandleFieldChange("merchantName", TxtCd)
    \/ HandleSaveReceipt
    \/ \E o \in { f \in SaveOutcomes : f.kind # "ok" }
                   \cup { [kind |-> "ok", payload |-> p] : p \in ImagePayloads } :
          SaveResponse(o)
    \/ HandleReviewToggle
    \/ \E o \in ReviewOutcomes : ReviewResponse(o)
    \/ \E o \in PresignOutcomes : AttachmentResponse(o)
    \/ \E o \in PresignOutcomes : StaleAttachmentResponse(o)
    \/ DetailUnmount

DetailNext ==
    \/ \E o \in FetchOutcomes : FetchReceiptResponse(o)
    \/ HandleStartEdit
    \/ HandleCancelEdit
    \/ \E f \in TopFields : \E v \in TopFieldValues(f) : HandleFieldChange(f, v)
    \/ \E i \in 1..MaxItems : \E f \in ItemFields : \E v \in ItemFieldValues(f) :
          HandleItemChange(i, f, v)
    \/ HandleItemAdd
    \/ \E i \in 1..MaxItems : HandleItemRemove(i)
    \/ HandleSaveReceipt
    \/ \E o \in SaveOutcomes : SaveResponse(o)

\* ================================================== transactions page
\* (TransactionsClient, src/unnamed/part_004)

TxtAbc == <<"a", "b", "c">>
Txt3 == <<"3">>
Txt7 == <<"7">>
Txt2p5 == <<"2", ".", "5">>

\* Dates of the rows, as parseReceiptDate and the "this month" filter see
\* them: a date of the client's current month, a date of an earlier month,
\* and no date.
DateThisMonth == "this-month"
DateEarlier == "earlier"

\* The filter of displayedTransactions (part_004:316-322).
InCurrentMonth(date) == date = DateThisMonth

Transaction(id, date) == [id |-> id, date |-> date]

\* Normalized lists GET /api/receipts/me may yield.  An id is String() of
\* whatever the backend sent as receiptId / id / _id.
TransactionLists ==
    { <<Transaction(Txt3, DateThisMonth), Transaction(TxtAbc, DateThisMonth),
        Transaction(Txt7, DateEarlier)>>,
      <<Transaction(Txt7, DateThisMonth), Transaction(Txt3, DateEarlier)>>,
      <<Transaction(Txt2p5, DateThisMonth), Transaction(Txt3, DateThisMonth)>> }

StatsNone == [totalSpentThisMonth |-> Null, receiptsProcessedThisMonth |-> Null]
StatsSome == [totalSpentThisMonth |-> Num(12, 0), receiptsProcessedThisMonth |-> Num(2, 0)]

TxFetchOutcomes ==
    { [kind |-> "ok", list |-> l, stats |-> st] :
        l \in TransactionLists, st \in {StatsNone, StatsSome} }
    \cup { [kind |-> k, list |-> <<>>, stats |-> StatsNone] : k \in {"notOk", "network"} }

MsgInvalidIds == "Some selected receipts have invalid ids and cannot be deleted."
MsgDeleteFailed == "Failed to delete selected receipts."
MsgDeleted == "Receipts deleted."
MsgDeletedCount == "Deleted N receipt(s)."

\* fetchData() of the mount effect settles (part_004:269-298).
TxFetchResponse(o) ==
    /\ txFetchPc = "inflight"
    /\ txFetchPc' = "done"
    /\ IF o.kind = "ok"
       THEN /\ transactions' = o.list
            /\ txStats' = o.stats
            /\ txStatus' = "success"
       ELSE /\ transactions' = <<>>
            /\ txStats' = StatsNone
            /\ txStatus' = "error"
    /\ UNCHANGED <<tab, selectedIds, bulkDeleteStatus, bulkDeleteMessage,
                   deletePending, deleteReqs, deleteClicks>>
    /\ UNCHANGED notTxVars

\* displayedTransactions (part_004:308-323)
displayedTransactions ==
    IF tab = "all" THEN transactions
    ELSE SelectSeq(transactions, LAMBDA item : InCurrentMonth(item.date))

\* The filter buttons (part_004:513-526).
SetTab(t) ==
    /\ tab # t
    /\ tab' = t
    /\ UNCHANGED <<transactions, txStats, txStatus, selectedIds, bulkDeleteStatus,
                   bulkDeleteMessage, txFetchPc, deletePending, deleteReqs,
                   deleteClicks>>
    /\ UNCHANGED notTxVars

Includes(seq, x) == \E i \in 1..Len(seq) : seq[i] = x

\* toggleSelect(id) (part_004:343-347), behind the checkbox of a displayed
\* row (part_004:549-575).
ToggleSelect(id) ==
    /\ txStatus = "success"
    /\ \E i \in 1..Len(displayedTransactions) : displayedTransactions[i].id = id
    /\ selectedIds' = IF Includes(selectedIds, id)
                      THEN SelectSeq(selectedIds, LAMBDA item : item # id)
                      ELSE Append(selectedIds, id)
    /\ UNCHANGED <<tab, transactions, txStats, txStatus, bulkDeleteStatus,
                   bulkDeleteMessage, txFetchPc, deletePending, deleteReqs,
                   deleteClicks>>
    /\ UNCHANGED notTxVars

\* Number.isInteger(id) && id > 0 (part_004:356)
IsPositiveInteger(n) == n.t = "num" /\ n.e = 0 /\ n.m > 0

\* Mutant of ParsedIds: the ids are converted but not filtered.
ParsedIdsUnfiltered(ids) == [i \in 1..Len(ids) |-> NumberOfString(ids[i])]

\* parsedIds (part_004:354-356)
ParsedIds(ids) ==
    SelectSeq([i \in 1..Len(ids) |-> NumberOfString(ids[i])], IsPositiveInteger)

\* The Delete button is enabled (part_004:591).
DeleteButtonEnabled == Len(selectedIds) # 0 /\ bulkDeleteStatus # "deleting"

\* handleDelete up to the await of deleteReceipts (part_004:349-379).
HandleDelete ==
    /\ DeleteButtonEnabled
    /\ deleteClicks < MaxDeletes
    /\ deleteClicks' = deleteClicks + 1
    /\ IF Len(selectedIds) = 0 \/ bulkDeleteStatus = "deleting"
       THEN UNCHANGED <<bulkDeleteStatus, bulkDeleteMessage, deletePending, deleteReqs>>
       ELSE IF Len(ParsedIds(selectedIds)) # Len(selectedIds)
       THEN /\ bulkDeleteStatus' = "error"
            /\ bulkDeleteMessage' = MsgInvalidIds
            /\ UNCHANGED <<deletePending, deleteReqs>>
       ELSE /\ bulkDeleteStatus' = "deleting"
            /\ bulkDeleteMessage' = ""
            /\ deletePending' = [active |-> TRUE, ids |-> ParsedIds(selectedIds)]
            /\ deleteReqs' = deleteReqs + 1
    /\ UNCHANGED <<tab, transactions, txStats, txStatus, selectedIds, txFetchPc>>
    /\ UNCHANGED notTxVars

\* Outcomes of DELETE /api/receipts: an OK object body whose deletedIds
\* names all the requested ids, the first of them, or nothing (absent or no
\* array), with or without a numeric deletedCount; a non-OK status with
\* `message`, `error` or neither; an OK body that is no object; a network
\* error.
DeleteOutcomes ==
    { [kind |-> "ok", deleted |-> d, count |-> c] :
        d \in {"all", "first", "none"}, c \in BOOLEAN }
    \cup { [kind |-> k, deleted |-> "none", count |-> FALSE] :
             k \in {"notOkMessage", "notOkError", "notOk", "notObject", "network"} }

DeletedIds(o, requested) ==
    CASE o.deleted = "all" -> requested
      [] o.deleted = "first" -> SubSeq(requested, 1, 1)
      [] OTHER -> <<>>

DeleteErrorMessage(o) ==
    CASE o.kind = "notOkMessage" -> MsgServer
      [] o.kind = "notOkError" -> MsgServerError
      [] o.kind = "network" -> MsgNetwork
      [] OTHER -> MsgDeleteFailed

NoDelete == [active |-> FALSE, ids |-> <<>>]

\* The DELETE settles (part_004:380-413).
DeleteResponse(o) ==
    /\ deletePending.active
    /\ deletePending' = NoDelete
    /\ IF o.kind = "ok"
       THEN /\ transactions' =
                 SelectSeq(transactions, LAMBDA item :
                     ~Includes(DeletedIds(o, deletePending.ids), NumberOfString(item.id)))
            /\ selectedIds' = <<>>
            /\ bulkDeleteStatus' = "success"
            /\ bulkDeleteMessage' = IF o.count THEN MsgDeletedCount ELSE MsgDeleted
       ELSE /\ bulkDeleteStatus' = "error"
            /\ bulkDeleteMessage' = DeleteErrorMessage(o)
            /\ UNCHANGED <<transactions, selectedIds>>
    /\ UNCHANGED <<tab, txStats, txStatus, txFetchPc, deleteReqs, deleteClicks>>
    /\ UNCHANGED notTxVars

TxIds == {Txt3, Txt7, TxtAbc, Txt2p5}

\* initialTab (part_004:232) is "month" unless the URL says ?tab=all; that
\* start is the state SetTab("all") reaches from this one.
TxInit ==
    /\ tab = "month"
    /\ transactions = <<>>
    /\ txStats = StatsNone
    /\ txStatus = "loading"
    /\ selectedIds = <<>>
    /\ bulkDeleteStatus = "idle"
    /\ bulkDeleteMessage = ""
    /\ txFetchPc = "inflight"
    /\ deletePending = NoDelete
    /\ deleteReqs = 0
    /\ deleteClicks = 0

TxNext ==
    \/ \E o \in TxFetchOutcomes : TxFetchResponse(o)
    \/ \E t \in {"month", "all"} : SetTab(t)
    \/ \E id \in TxIds : ToggleSelect(id)
    \/ HandleDelete
    \/ \E o \in DeleteOutcomes : DeleteResponse(o)

\* ====================================================== stateless helpers
\* (src/app/dashboard/DashboardClient.tsx, TransactionsClient)

\* ---- JSON payloads
\* An object is its field map, an array its sequence of values; a field
\* that is absent reads as undefined, which is Null like null.
JObj(f) == [t |-> "jobj", f |-> f]
JArr(v) == [t |-> "jarr", v |-> v]
NoFields == [k \in {} |-> Null]

Get(object, key) == IF key \in DOMAIN object.f THEN object.f[key] ELSE Null

\* toObject(value) (DashboardClient.tsx:134-139)
toObject(value) == IF value.t = "jobj" THEN value ELSE Null

\* toNumber(value) of the list pages (DashboardClient.tsx:141-150)
toNumberOfList(value) ==
    IF value.t = "jnum" /\ IsFinite(value.v) THEN value.v
    ELSE IF value.t = "jstr"
         THEN LET parsed == NumberOfString(value.v) IN
              IF IsFinite(parsed) THEN parsed ELSE Null
         ELSE Null

\* readFirstString(source, keys) (DashboardClient.tsx:152-160); Null for null
RECURSIVE readFirstString(_, _)
readFirstString(source, keys) ==
    IF keys = <<>> THEN Null
    ELSE LET value == Get(source, Head(keys)) IN
         IF value.t = "jstr" /\ Trim(value.v) # <<>>
         THEN JStr(Trim(value.v))
         ELSE readFirstString(source, Tail(keys))

\* readFirstNumber(source, keys) (DashboardClient.tsx:162-170)
RECURSIVE readFirstNumber(_, _)
readFirstNumber(source, keys) ==
    IF keys = <<>> THEN Null
    ELSE LET value == toNumberOfList(Get(source, Head(keys))) IN
         IF value # Null THEN value ELSE readFirstNumber(source, Tail(keys))

\* toDateString(value) (DashboardClient.tsx:172-178)
toDateString(value) ==
    IF value.t # "jstr" THEN Null
    ELSE IF Trim(value.v) # <<>> THEN JStr(Trim(value.v)) ELSE Null

\* ---- dates
\* An instant is a number of hours since 1970-01-01T00:00Z (the code's
\* milliseconds, divided by 3 600 000: every instant met is a whole hour).
\* The client's timezone is a fixed offset of whole hours, local = UTC + offset.

Instant(h) == [t |-> "time", h |-> h]

\* Days since 1970-01-01 of a civil date (proleptic Gregorian calendar).
DaysFromCivil(y, m, d) ==
    LET yy == IF m <= 2 THEN y - 1 ELSE y
        era == yy \div 400
        yoe == yy - era * 400
        mp == IF m > 2 THEN m - 3 ELSE m + 9
        doy == (153 * mp + 2) \div 5 + d - 1
        doe == yoe * 365 + yoe \div 4 - yoe \div 100 + doy
    IN  era * 146097 + doe - 719468

\* The civil date of a day number.
CivilFromDays(z) ==
    LET zz == z + 719468
        era == zz \div 146097
        doe == zz - era * 146097
        yoe == (doe - doe \div 1460 + doe \div 36524 - doe \div 146096) \div 365
        doy == doe - (365 * yoe + yoe \div 4 - yoe \div 100)
        mp == (5 * doy + 2) \div 153
        d == doy - (153 * mp + 2) \div 5 + 1
        m == IF mp < 10 THEN mp + 3 ELSE mp - 9
        y == yoe + era * 400 + (IF m <= 2 THEN 1 ELSE 0)
    IN  [year |-> y, month |-> m, day |-> d]

\* /^(\d{4})-(\d{2})-(\d{2})$/
IsDateOnly(s) ==
    /\ Len(s) = 10
    /\ s[5] = "-" /\ s[8] = "-"
    /\ \A i \in {1, 2, 3, 4, 6, 7, 9, 10} : s[i] \in Digits

DateOnlyYear(s) == DigitsValue(SubSeq(s, 1, 4))
DateOnlyMonth(s) == DigitsValue(SubSeq(s, 6, 7))
DateOnlyDay(s) == DigitsValue(SubSeq(s, 9, 10))

\* new Date(year, monthIndex, day) in the client's timezone: a year of 0..99
\* stands for 1900 + year, and a month index or a day outside its range
\* carries over (MakeDay).
NewLocalDate(year, monthIndex, day, offset) ==
    LET y == IF year >= 0 /\ year <= 99 THEN 1900 + year ELSE year
        days == DaysFromCivil(y + monthIndex \div 12, (monthIndex % 12) + 1, 1) + day - 1
    IN  Instant(days * 24 - offset)

\* Date.parse(text) for the texts modelled: a date-only ISO string of a
\* month 01..12 and a day 01..31 is UTC midnight of that day; the other
\* texts used here are no dates at all.
DateParse(s) ==
    IF /\ IsDateOnly(s)
       /\ DateOnlyMonth(s) \in 1..12
       /\ DateOnlyDay(s) \in 1..31
    THEN Instant(DaysFromCivil(DateOnlyYear(s), DateOnlyMonth(s), 1) * 24
                 + (DateOnlyDay(s) - 1) * 24)
    ELSE NaN

\* Mutant of parseReceiptDate: a date-only text goes through Date.parse
\* like every other text, i.e. is read as UTC midnight.
parseReceiptDateAsUtc(value, offset) ==
    IF value = Null \/ value.v = <<>> THEN Null
    ELSE LET trimmed == Trim(value.v) IN
         IF trimmed = <<>> THEN Null
         ELSE LET parsed == DateParse(trimmed) IN
              IF parsed = NaN THEN Null ELSE parsed

\* parseReceiptDate(value) (TransactionsClient, part_004:66-89); value is a
\* JStr or Null, the result an instant or Null.
parseReceiptDate(value, offset) ==
    IF value = Null \/ value.v = <<>> THEN Null
    ELSE LET trimmed == Trim(value.v) IN
         IF trimmed = <<>> THEN Null
         ELSE IF IsDateOnly(trimmed)
              THEN NewLocalDate(DateOnlyYear(trimmed), DateOnlyMonth(trimmed) - 1,
                                DateOnlyDay(trimmed), offset)
              ELSE LET parsed == DateParse(trimmed) IN
                   IF parsed = NaN THEN Null ELSE parsed

\* Date.prototype.getFullYear / getMonth (0-based) in the client's timezone
LocalCivil(instant, offset) == CivilFromDays((instant.h + offset) \div 24)
getFullYear(instant, offset) == LocalCivil(instant, offset).year
getMonth(instant, offset) == LocalCivil(instant, offset).month - 1

\* ---- Array.prototype.sort
\* cmp(a, b) is the sign of the comparator's result, NaN counting as +0.
\* With a consistent comparator the sort is stable and its result unique;
\* with an inconsistent one the order is implementation-defined, so every
\* permutation is a possible result.
ArraySort(s, cmp(_, _)) ==
    LET idx == 1..Len(s)
        c == [a \in idx |-> [b \in idx |-> cmp(s[a], s[b])]]
        Consistent ==
            \A a, b, d \in idx :
                /\ c[a][a] = 0
                /\ c[a][b] = 0 - c[b][a]
                /\ (c[a][b] = 0 /\ c[b][d] = 0) => c[a][d] = 0
                /\ (c[a][b] < 0 /\ c[b][d] < 0) => c[a][d] < 0
                /\ c[a][b] = 0 => c[a][d] = c[b][d]
        Sorted(p) ==
            \A i, j \in idx : i < j =>
                \/ c[p[i]][p[j]] < 0
                \/ c[p[i]][p[j]] = 0 /\ p[i] < p[j]
        orders == IF Consistent THEN { p \in Permutations(idx) : Sorted(p) }
                  ELSE Permutations(idx)
    IN  IF s = <<>> THEN { <<>> }
        ELSE { [i \in idx |-> s[p[i]]] : p \in orders }

\* The sign of rightTime - leftTime; NaN when either is NaN, which sort
\* reads as +0.
TimeOrder(leftTime, rightTime) ==
    IF leftTime = NaN \/ rightTime = NaN THEN 0
    ELSE IF rightTime.h < leftTime.h THEN 0 - 1
    ELSE IF rightTime.h > leftTime.h THEN 1
    ELSE 0

Epoch == Instant(0)

\* ---- the normalizers

TxtReceiptDash == <<"r", "e", "c", "e", "i", "p", "t", "-">>
TxtReviewed == <<"R", "e", "v", "i", "e", "w", "e", "d">>
TxtUnreview == <<"U", "n", "r", "e", "v", "i", "e", "w">>
TxtUnknown == <<"U", "n", "k", "n", "o", "w", "n">>
TxtUnknownMerchantOfList ==
    <<"U", "n", "k", "n", "o", "w", "n", " ", "M", "e", "r", "c", "h", "a", "n", "t">>

IdKeys == <<"receiptId", "id", "_id">>
MerchantKeys == <<"merchant", "merchantName", "store", "vendor", "name", "title">>
AmountKeys == <<"amount", "total", "totalAmount", "price", "sum">>
StatusKeys == <<"status", "processingStatus", "state">>
DateKeys == <<"createdAt", "date", "receiptDate", "transactionDate">>

\* a ?? b ?? ... over the fields named by keys
RECURSIVE FirstDefined(_, _)
FirstDefined(object, keys) ==
    IF keys = <<>> THEN Null
    ELSE IF Get(object, Head(keys)) # Null THEN Get(object, Head(keys))
    ELSE FirstDefined(object, Tail(keys))

\* `receipt-${index}`
Placeholder(index) == TxtReceiptDash \o NatDigits(index)

\* The id of the entry at (0-based) index (DashboardClient.tsx:199-202)
EntryId(object, index) ==
    LET rawId == FirstDefined(object, IdKeys) IN
    IF rawId.t = "jstr" THEN rawId.v
    ELSE IF rawId.t = "jnum" THEN StringOfNumber(rawId.v)
    ELSE Placeholder(index)

\* Mutant of EntryStatus: a status text takes priority over `reviewed`.
EntryStatusTextFirst(object) ==
    LET reviewed == Get(object, "reviewed")
        s == readFirstString(object, StatusKeys)
    IN  IF s # Null THEN s.v
        ELSE IF reviewed.t = "jbool"
             THEN IF reviewed.v THEN TxtReviewed ELSE TxtUnreview
             ELSE TxtUnknown

\* The status of an entry (DashboardClient.tsx:207-213)
EntryStatus(object) ==
    LET reviewed == Get(object, "reviewed") IN
    IF reviewed.t = "jbool"
    THEN IF reviewed.v THEN TxtReviewed ELSE TxtUnreview
    ELSE LET s == readFirstString(object, StatusKeys) IN
         IF s # Null THEN s.v ELSE TxtUnknown

EntryMerchant(object) ==
    LET m == readFirstString(object, MerchantKeys) IN
    IF m # Null THEN m.v ELSE TxtUnknownMerchantOfList

\* Mutant of ReceiptsRaw: `items` is looked at before `data`.
ReceiptsRawItemsFirst(payload) ==
    LET payloadObject == toObject(payload)
        field(k) == IF payloadObject = Null THEN Null ELSE Get(payloadObject, k)
    IN  IF payload.t = "jarr" THEN payload.v
        ELSE IF field("items").t = "jarr" THEN field("items").v
        ELSE IF field("data").t = "jarr" THEN field("data").v
        ELSE IF field("receipts").t = "jarr" THEN field("receipts").v
        ELSE <<>>

\* The array the normalizers read from a payload (DashboardClient.tsx:181-190)
ReceiptsRaw(payload) ==
    LET payloadObject == toObject(payload)
        field(k) == IF payloadObject = Null THEN Null ELSE Get(payloadObject, k)
    IN  IF payload.t = "jarr" THEN payload.v
        ELSE IF field("data").t = "jarr" THEN field("data").v
        ELSE IF field("items").t = "jarr" THEN field("items").v
        ELSE IF field("receipts").t = "jarr" THEN field("receipts").v
        ELSE <<>>

\* The (1-based) positions of the entries that are objects.
RECURSIVE ObjectPositions(_, _)
ObjectPositions(raw, from) ==
    IF from > Len(raw) THEN <<>>
    ELSE IF toObject(raw[from]) = Null THEN ObjectPositions(raw, from + 1)
    ELSE <<from>> \o ObjectPositions(raw, from + 1)

\* .map(record) followed by .filter(x => x !== null): the records of the
\* object entries, each built with the index of its entry in raw.
MapFilter(raw, record(_, _)) ==
    LET at == ObjectPositions(raw, 1) IN
    [i \in 1..Len(at) |-> record(raw[at[i]], at[i] - 1)]

ReceiptOf(object, index) ==
    [id |-> EntryId(object, index),
     merchant |-> EntryMerchant(object),
     amount |-> readFirstNumber(object, AmountKeys),
     status |-> EntryStatus(object),
     date |-> toDateString(FirstDefined(object, DateKeys))]

TransactionOf(object, index) ==
    [id |-> EntryId(object, index),
     merchant |-> EntryMerchant(object),
     amount |-> readFirstNumber(object, AmountKeys),
     date |-> toDateString(FirstDefined(object, DateKeys))]

\* left.date ? Date.parse(left.date) : 0
ReceiptTime(r) == IF r.date = Null THEN Epoch ELSE DateParse(r.date.v)

\* parseReceiptDate(left.date)?.getTime() ?? 0
TransactionTime(r, offset) ==
    LET parsed == parseReceiptDate(r.date, offset) IN
    IF parsed = Null THEN Epoch ELSE parsed

\* normalizeReceipts(payload) (DashboardClient.tsx:180-229): the lists it
\* may return (one, unless the comparator is inconsistent on the records).
normalizeReceipts(payload) ==
    LET cmp(l, r) == TimeOrder(ReceiptTime(l), ReceiptTime(r)) IN
    ArraySort(MapFilter(ReceiptsRaw(payload), ReceiptOf), cmp)

\* normalizeTransactions(payload) (part_004:91-132) in a client at offset
normalizeTransactions(payload, offset) ==
    LET cmp(l, r) == TimeOrder(TransactionTime(l, offset), TransactionTime(r, offset)) IN
    ArraySort(MapFilter(ReceiptsRaw(payload), TransactionOf), cmp)

\* ---- grouping and the this-month filter (TransactionsClient)

MonthLabels ==
    <<"JANUARY", "FEBRUARY", "MARCH", "APRIL", "MAY", "JUNE", "JULY", "AUGUST",
      "SEPTEMBER", "OCTOBER", "NOVEMBER", "DECEMBER">>

\* monthOrder (part_004:207-221)
MonthOrder == MonthLabels \o <<"UNKNOWN">>

\* monthOrder.indexOf(label)
MonthOrderIndexOf(label) ==
    IF \E i \in 1..Len(MonthOrder) : MonthOrder[i] = label
    THEN (CHOOSE i \in 1..Len(MonthOrder) : MonthOrder[i] = label) - 1
    ELSE 0 - 1

\* getMonthLabel(value) (part_004:167-173)
getMonthLabel(value, offset) ==
    LET parsedDate == parseReceiptDate(value, offset) IN
    IF parsedDate = Null THEN "Unknown"
    ELSE MonthLabels[getMonth(parsedDate, offset) + 1]

\* The year key of an item (part_004:184-185)
YearKey(item, offset) ==
    LET parsedDate == parseReceiptDate(item.date, offset) IN
    IF parsedDate = Null THEN TxtUnknown
    ELSE StringOfNumber(Num(getFullYear(parsedDate, offset), 0))

\* The keys of a Map filled in the order of seq: first appearances.
RECURSIVE FirstAppearances(_)
FirstAppearances(seq) ==
    IF seq = <<>> THEN <<>>
    ELSE LET init == FirstAppearances(SubSeq(seq, 1, Len(seq) - 1))
             last == seq[Len(seq)]
         IN  IF \E i \in 1..Len(init) : init[i] = last THEN init ELSE Append(init, last)

Sign(n) == IF n < 0 THEN 0 - 1 ELSE IF n > 0 THEN 1 ELSE 0

\* The comparator of the years (part_004:199-203)
YearOrder(left, right) ==
    IF left = TxtUnknown THEN 1
    ELSE IF right = TxtUnknown THEN 0 - 1
    ELSE Sign(NumberOfString(right).m - NumberOfString(left).m)

\* The comparator of the months of a year (part_004:206-223)
MonthOrderOf(left, right) == Sign(MonthOrderIndexOf(left) - MonthOrderIndexOf(right))

\* groupTransactionsByYearAndMonth(transactions) (part_004:180-228) in a
\* client at offset: the groupings it may return.
groupTransactionsByYearAndMonth(list, offset) ==
    LET n == Len(list)
        yearOf == [i \in 1..n |-> YearKey(list[i], offset)]
        monthOf == [i \in 1..n |-> getMonthLabel(list[i].date, offset)]
        InYear(y) == { i \in 1..n : yearOf[i] = y }
        monthsOf(y) ==
            LET Test(i) == i \in InYear(y)
                at == SelectSeq([i \in 1..n |-> i], Test)
            IN  FirstAppearances([k \in 1..Len(at) |-> monthOf[at[k]]])
        itemsOf(y, m) ==
            LET Test(i) == yearOf[i] = y /\ monthOf[i] = m
                at == SelectSeq([i \in 1..n |-> i], Test)
            IN  [k \in 1..Len(at) |-> list[at[k]]]
        group(y) ==
            LET months == CHOOSE ms \in ArraySort(monthsOf(y), MonthOrderOf) : TRUE IN
            [year |-> y,
             months |-> [k \in 1..Len(months) |->
                            [month |-> months[k], items |-> itemsOf(y, months[k])]]]
    IN  { [k \in 1..Len(years) |-> group(years[k])] :
            years \in ArraySort(FirstAppearances(yearOf), YearOrder) }

\* The filter of the "this month" tab (part_004:312-322), now being the
\* instant of the render.
ShownThisMonth(item, now, offset) ==
    LET parsedDate == parseReceiptDate(item.date, offset) IN
    /\ parsedDate # Null
    /\ getFullYear(parsedDate, offset) = getFullYear(now, offset)
    /\ getMonth(parsedDate, offset) = getMonth(now, offset)

\* displayedTransactions (part_004:308-323) as a function of what it reads
DisplayedOf(whichTab, list, now, offset) ==
    IF whichTab = "all" THEN list
    ELSE LET Test(item) == ShownThisMonth(item, now, offset) IN SelectSeq(list, Test)

\* ---- inputs of the normalizers

TxtPending == <<"p", "e", "n", "d", "i", "n", "g">>
TxtPendingSp == <<" ", "p", "e", "n", "d", "i", "n", "g", " ">>
TxtDone == <<"d", "o", "n", "e">>
TxtBlank == <<" ", " ">>
TxtNoDate == <<"n", "/", "a">>
Txt8 == <<"8">>
Txt9 == <<"9">>
TxtReceipt1 == <<"r", "e", "c", "e", "i", "p", "t", "-", "1">>
TxtMarch1 == <<"2", "0", "2", "4", "-", "0", "3", "-", "0", "1">>
TxtJan15 == <<"2", "0", "2", "4", "-", "0", "1", "-", "1", "5">>
TxtJan31 == <<"2", "0", "2", "4", "-", "0", "1", "-", "3", "1">>
TxtFeb1 == <<"2", "0", "2", "4", "-", "0", "2", "-", "0", "1">>
TxtDec31 == <<"2", "0", "2", "3", "-", "1", "2", "-", "3", "1">>
TxtYear50 == <<"0", "0", "5", "0", "-", "0", "6", "-", "1", "5">>

\* Entries of a list response: objects with the fields the readers look at
\* under their alternative names, and values that are no objects.
ListEntries ==
    { JObj("receiptId" :> JNum(Num(7, 0)) @@ "merchant" :> JStr(TxtAb)
           @@ "amount" :> JNum(Num(12, 0)) @@ "date" :> JStr(TxtMarch1)
           @@ "reviewed" :> JBool(TRUE) @@ "status" :> JStr(TxtPending)),
      JObj("id" :> JStr(Txt8) @@ "total" :> JStr(Txt13p50)
           @@ "createdAt" :> JStr(TxtJan15) @@ "status" :> JStr(TxtPendingSp)),
      JObj("receiptId" :> JStr(TxtEmpty) @@ "id" :> JStr(Txt8)
           @@ "date" :> JStr(TxtNoDate) @@ "reviewed" :> JBool(FALSE)
           @@ "state" :> JStr(TxtDone)),
      JObj("_id" :> JStr(TxtReceipt1) @@ "store" :> JStr(TxtSpAb)),
      JObj("receiptId" :> JBool(TRUE) @@ "id" :> JStr(Txt9)
           @@ "status" :> JStr(TxtBlank) @@ "processingStatus" :> JStr(TxtDone)
           @@ "amount" :> JStr(TxtAb) @@ "price" :> JStr(Txt12p0)),
      JObj("receiptId" :> Null @@ "id" :> JNum(Num(7, 0))
           @@ "transactionDate" :> JStr(TxtMarch1) @@ "reviewed" :> JStr(TxtPending)
           @@ "state" :> JStr(TxtDone) @@ "amount" :> JStr(TxtEmpty)),
      Null,
      JArr(<<>>) }

\* The arrays of at most n entries.
RECURSIVE EntryArrays(_)
EntryArrays(n) ==
    IF n = 0 THEN { <<>> }
    ELSE LET shorter == EntryArrays(n - 1) IN
         shorter \cup { Append(a, e) : a \in { x \in shorter : Len(x) = n - 1 }, e \in ListEntries }

WrapperKeys == {"data", "items", "receipts"}

\* An array that is not one of the arrays above, to tell fields apart.
OtherArray == <<JObj("id" :> JStr(Txt3))>>

\* The payloads holding the array a alone: bare, or under a wrapper field.
PayloadsOf(a) ==
    { JArr(a) } \cup { JObj(k :> JArr(a)) : k \in WrapperKeys }

\* The payloads holding the array a under a wrapper field next to other
\* fields, an array or something else.
MixedPayloadsOf(a) ==
    { JObj("data" :> JArr(a) @@ "items" :> JArr(OtherArray)),
      JObj("items" :> JArr(a) @@ "receipts" :> JArr(OtherArray)
           @@ "data" :> JStr(TxtAb)),
      JObj("receipts" :> JArr(a) @@ "data" :> Null @@ "items" :> JObj(NoFields)) }

\* Payloads without an array where the normalizers look for one.
PayloadsWithoutArray ==
    { Null, JStr(TxtAb), JNum(Num(7, 0)), JBool(TRUE), JObj(NoFields),
      JObj("data" :> JObj("items" :> JArr(OtherArray))),
      JObj("results" :> JArr(OtherArray)) }

ListPayloads ==
    PayloadsWithoutArray
    \cup UNION { PayloadsOf(a) : a \in EntryArrays(MaxEntries) }
    \cup UNION { MixedPayloadsOf(a) : a \in EntryArrays(1) }

\* UTC offsets of the client, in hours.
Offsets == {0 - 11, 0, 14}

\* ---- inputs of the grouping and of the this-month filter

\* Dates of transactions: days around a month's and a year's end, a day of
\* the year 50, a text that is no date, and no date.
GroupDates ==
    { JStr(TxtJan31), JStr(TxtFeb1), JStr(TxtDec31), JStr(TxtYear50), JStr(TxtNoDate), Null }

TransactionAt(i, date) ==
    [id |-> NatDigits(i), merchant |-> TxtAb, amount |-> Null, date |-> date]

\* The lists of at most n transactions, the i-th with id i.
RECURSIVE DatedLists(_)
DatedLists(n) ==
    IF n = 0 THEN { <<>> }
    ELSE LET shorter == DatedLists(n - 1) IN
         shorter \cup { Append(l, TransactionAt(n, d)) :
                          l \in { x \in shorter : Len(x) = n - 1 }, d \in GroupDates }

\* Instants of a render: 2024-01-31T20:00Z, 2024-02-01T05:00Z and
\* 2023-12-31T23:00Z, each a different local day in some of the offsets.
RenderInstants ==
    { Instant(DaysFromCivil(2024, 1, 31) * 24 + 20),
      Instant(DaysFromCivil(2024, 2, 1) * 24 + 5),
      Instant(DaysFromCivil(2023, 12, 31) * 24 + 23) }

\* ---- inputs of toNumber

Infinity == [t |-> "inf"]

TxtMinus2p5 == <<"-", "2", ".", "5">>
TxtSp12 == <<" ", "1", "2", " ">>
Txt1dot == <<"1", ".">>
Txt1p2p3 == <<"1", ".", "2", ".", "3">>
Txt12abc == <<"1", "2", "a", "b", "c">>

NumberInputs ==
    { JNum(Num(0, 0)), JNum(Num(12, 0)), JNum(Num(0 - 135, 1)), JNum(NaN), JNum(Infinity),
      JStr(Txt12), JStr(Txt12p00), JStr(TxtMinus2p5), JStr(TxtSp12), JStr(Txt1dot),
      JStr(TxtEmpty), JStr(TxtBlank), JStr(TxtAb), JStr(Txt12abc), JStr(Txt1p2p3),
      JBool(TRUE), JBool(FALSE), Null, JObj(NoFields), JArr(<<>>) }

\* ======================================================================
\* The upload-URL broker (src/app/api/s3-upload/route.ts)
\* ======================================================================
\* The configuration is process.env: `vars` holds the variables other than
\* `secrets` (name -> text), `secrets` the secrets blob, which is absent
\* (Null), a text that JSON.parse accepts (the parsed value) or a text it
\* rejects (its lines).  A text of the configuration is a sequence of
\* characters in which a variable name stands as one element.

Env(variables, secrets) == [vars |-> JObj(variables), secrets |-> secrets]
SecretsJson(value) == [t |-> "json", v |-> value]
SecretsLines(lines) == [t |-> "lines", v |-> lines]

IndexOf(s, c) ==
    IF \E i \in 1..Len(s) : s[i] = c
    THEN CHOOSE i \in 1..Len(s) : s[i] = c /\ \A j \in 1..(i - 1) : s[j] # c
    ELSE 0

\* The reduce callback of readAmplifySecrets (route.ts:23-34): the entry a
\* line adds to the accumulator, if any.  separatorIndex is 0-based in the
\* source, so `separatorIndex <= 0` is IndexOf(line, "=") <= 1 here.
SecretLineKey(line) == Trim(SubSeq(line, 1, IndexOf(line, "=") - 1))
SecretLineValue(line) == Trim(SubSeq(line, IndexOf(line, "=") + 1, Len(line)))
SecretLineAdds(line) ==
    /\ IndexOf(line, "=") > 1
    /\ SecretLineKey(line) # <<>>
    /\ SecretLineValue(line) # <<>>

\* readAmplifySecrets() (route.ts:7-36), read at one name: the value of
\* the property `name` of the object it returns, Null when there is none.
\* Lines are trimmed and the blank ones dropped; a later line overwrites
\* an earlier one with the same key.
readAmplifySecrets(env, name) ==
    IF env.secrets = Null THEN Null
    ELSE IF env.secrets.t = "json"
    THEN IF env.secrets.v.t = "jobj" THEN Get(env.secrets.v, name) ELSE Null
    ELSE LET lines == [i \in 1..Len(env.secrets.v) |-> Trim(env.secrets.v[i])]
             adding == { i \in 1..Len(lines) :
                           /\ lines[i] # <<>>
                           /\ SecretLineAdds(lines[i])
                           /\ SecretLineKey(lines[i]) = <<name>> }
         IN  IF adding = {} THEN Null
             ELSE JStr(SecretLineValue(lines[CHOOSE i \in adding : \A j \in adding : j <= i]))

\* readEnv(name) (route.ts:38-50); "" is <<>>
readEnv(env, name) ==
    LET value == Get(env.vars, name)
        secretValue == readAmplifySecrets(env, name)
    IN  IF value # Null /\ Trim(value.v) # <<>> THEN Trim(value.v)
        ELSE IF secretValue.t = "jstr" /\ Trim(secretValue.v) # <<>>
             THEN Trim(secretValue.v)
             ELSE <<>>

\* readFirstEnv(names) (route.ts:52-60), optionalEnv (route.ts:70-72)
RECURSIVE readFirstEnv(_, _)
readFirstEnv(env, names) ==
    IF names = <<>> THEN <<>>
    ELSE IF readEnv(env, Head(names)) # <<>> THEN readEnv(env, Head(names))
    ELSE readFirstEnv(env, Tail(names))

optionalEnv(env, names) == readFirstEnv(env, names)

\* requiredEnv(...names) (route.ts:62-68) throws when the value is ""
RequiredEnvThrows(env, names) == readFirstEnv(env, names) = <<>>
MissingVariable(names) == [t |-> "jstr", v |-> <<"Missing environment variable: ">>,
                           names |-> names]

RegionNames == <<"AWS_REGION", "S3_REGION">>
BucketNames == <<"AWS_S3_BUCKET", "S3_BUCKET">>
ExpiresNames == <<"AWS_S3_SIGNED_URL_EXPIRES", "S3_SIGNED_URL_EXPIRES">>
AccessKeyNames == <<"AWS_ACCESS_KEY_ID", "S3_ACCESS_KEY_ID">>
SecretKeyNames == <<"AWS_SECRET_ACCESS_KEY", "S3_SECRET_ACCESS_KEY">>

\* String.prototype.toLowerCase on the letters
UpperLetters == <<"A", "B", "C", "D", "E", "F", "G", "H", "I", "J", "K", "L", "M",
                  "N", "O", "P", "Q", "R", "S", "T", "U", "V", "W", "X", "Y", "Z">>
LowerLetters == <<"a", "b", "c", "d", "e", "f", "g", "h", "i", "j", "k", "l", "m",
                  "n", "o", "p", "q", "r", "s", "t", "u", "v", "w", "x", "y", "z">>
toLowerCase(s) ==
    [i \in 1..Len(s) |->
        IF \E k \in 1..26 : UpperLetters[k] = s[i]
        THEN LowerLetters[CHOOSE k \in 1..26 : UpperLetters[k] = s[i]]
        ELSE s[i]]

\* extensionFromName(fileName) (route.ts:74-77): /\.([a-z0-9]+)$/ matches
\* the text after the last dot when it is non-empty and alphanumeric.
extensionFromName(fileName) ==
    LET lower == toLowerCase(fileName)
        alnum == { LowerLetters[k] : k \in 1..26 } \cup Digits
        dots == { i \in 1..Len(lower) : lower[i] = "." }
        last == CHOOSE i \in dots : \A j \in dots : j <= i
    IN  IF dots # {} /\ last < Len(lower)
           /\ \A i \in (last + 1)..Len(lower) : lower[i] \in alnum
        THEN SubSeq(lower, last + 1, Len(lower))
        ELSE <<"j", "p", "g">>

\* createS3Client(region) (route.ts:79-94)
createS3Client(env, region) ==
    LET accessKeyId == optionalEnv(env, AccessKeyNames)
        secretAccessKey == optionalEnv(env, SecretKeyNames)
    IN  IF accessKeyId # <<>> /\ secretAccessKey # <<>>
        THEN [region |-> region,
              credentials |-> [accessKeyId |-> accessKeyId,
                               secretAccessKey |-> secretAccessKey]]
        ELSE [region |-> region, credentials |-> Null]

TxtImageSlash == <<"i", "m", "a", "g", "e", "/">>
MsgFileNameRequired == <<"fileName is required.">>
MsgOnlyImages == <<"Only image files are supported.">>
MsgSigningFailed == <<"signing failed">>

\* A response of the handler: NextResponse.json(body, {status}), with the
\* getSignedUrl calls the handler made before it answered.
BrokerResponse(code, body, signed) ==
    [t |-> "response", status |-> code, body |-> JObj(body), signed |-> signed]

\* The URL getSignedUrl returns: a non-empty text that authorizes `method`
\* on the key of the bucket for expiresIn seconds.
SignedUrl(method, client, bucket, key, contentType, expiresIn) ==
    [t |-> "jstr", v |-> <<"https://", bucket, "/", "?X-Amz-Signature=">>,
     method |-> method, client |-> client, bucket |-> bucket, key |-> key,
     contentType |-> contentType, expiresIn |-> expiresIn]

\* What the two getSignedUrl calls may do: both succeed, or one of them
\* throws (no credentials can be resolved, for example).
SigningOutcomes == {"ok", "putThrows", "getThrows"}

\* Mutant of POST's validation: the content type is not looked at.
ContentTypeRejectedNever(contentType) == FALSE

\* route.ts:112
ContentTypeRejected(contentType) == ~StartsWith(contentType, TxtImageSlash)

\* POST(request) (route.ts:96-153).  body is what request.json() yields
\* (Null when it rejects), today the first ten characters of
\* new Date().toISOString(), uuid the value of crypto.randomUUID().
POST(env, body, today, uuid, signing) ==
    IF RequiredEnvThrows(env, RegionNames)
    THEN BrokerResponse(500, "message" :> MissingVariable(RegionNames), <<>>)
    ELSE IF RequiredEnvThrows(env, BucketNames)
    THEN BrokerResponse(500, "message" :> MissingVariable(BucketNames), <<>>)
    ELSE
    LET region == readFirstEnv(env, RegionNames)
        bucket == readFirstEnv(env, BucketNames)
        expiresText == optionalEnv(env, ExpiresNames)
        signedUrlExpiresSeconds ==
            NumberOfString(IF expiresText # <<>> THEN expiresText
                           ELSE <<"3", "6", "0", "0">>)
        payload == IF body # Null /\ body.t \in {"jobj", "jarr"} THEN body ELSE JObj(NoFields)
        field(k) == IF payload.t = "jobj" THEN Get(payload, k) ELSE Null
        fileName == IF field("fileName").t = "jstr" THEN field("fileName").v ELSE <<>>
        contentType == IF field("contentType").t = "jstr" THEN field("contentType").v
                       ELSE <<>>
    IN  IF Trim(fileName) = <<>>
        THEN BrokerResponse(400, "message" :> JStr(MsgFileNameRequired), <<>>)
        ELSE IF ContentTypeRejected(contentType)
        THEN BrokerResponse(400, "message" :> JStr(MsgOnlyImages), <<>>)
        ELSE
        LET extension == extensionFromName(fileName)
            key == JStr(<<"receipts/", today, "/", uuid, ".">> \o extension)
            client == createS3Client(env, region)
            expiresIn == IF IsFinite(signedUrlExpiresSeconds)
                         THEN signedUrlExpiresSeconds ELSE Num(3600, 0)
            uploadUrl == SignedUrl("PUT", client, bucket, key, contentType, expiresIn)
            signedReadUrl == SignedUrl("GET", client, bucket, key, <<>>, expiresIn)
        IN  IF signing = "putThrows"
            THEN BrokerResponse(500, "message" :> JStr(MsgSigningFailed), <<>>)
            ELSE IF signing = "getThrows"
            THEN BrokerResponse(500, "message" :> JStr(MsgSigningFailed), <<uploadUrl>>)
            ELSE BrokerResponse(200,
                                ("uploadUrl" :> uploadUrl) @@ ("url" :> signedReadUrl)
                                    @@ ("key" :> key),
                                <<uploadUrl, signedReadUrl>>)

\* What handleFileSelect reads in a slot response
\* (DashboardClient.tsx:533-538): response.ok and the typeof / blankness
\* of imageId, objectKey and uploadUrl of the body.
SlotFieldKind(value) ==
    IF value.t # "jstr" THEN "missing"
    ELSE IF Trim(value.v) = <<>> THEN "blank" ELSE "text"

SlotReading(response) ==
    LET object == toObject(response.body)
        imageId == Get(object, "imageId")
    IN  SlotBody(response.status \in 200..299,
                 IF imageId.t = "jnum" THEN "number"
                 ELSE IF imageId.t = "jstr" THEN "string" ELSE "missing",
                 SlotFieldKind(Get(object, "objectKey")),
                 SlotFieldKind(Get(object, "uploadUrl")),
                 IF Get(object, "message").t = "jstr" THEN "text" ELSE "none")

\* ---- configurations and requests of the broker

TxtUs == <<"u", "s">>
TxtEu == <<"e", "u">>
TxtBucket == <<"b", "k">>
TxtBucket2 == <<"b", "2">>
TxtTwoBlanks == <<" ", " ">>

DirectVars(region, region2, bucket, bucket2) ==
    [n \in { x \in {"AWS_REGION"} : region # Null } |-> JStr(region)]
    @@ [n \in { x \in {"S3_REGION"} : region2 # Null } |-> JStr(region2)]
    @@ [n \in { x \in {"AWS_S3_BUCKET"} : bucket # Null } |-> JStr(bucket)]
    @@ [n \in { x \in {"S3_BUCKET"} : bucket2 # Null } |-> JStr(bucket2)]

BrokerEnvs ==
    { \* the primary names, the secondary names
      Env(DirectVars(TxtUs, Null, TxtBucket, Null), Null),
      Env(DirectVars(Null, TxtEu, Null, TxtBucket2), Null),
      \* a blank primary region; both buckets; a lifetime and credentials
      Env(DirectVars(TxtTwoBlanks, TxtEu, TxtBucket, TxtBucket2)
          @@ ("AWS_S3_SIGNED_URL_EXPIRES" :> JStr(<<"6", "0">>))
          @@ ("AWS_ACCESS_KEY_ID" :> JStr(<<"i", "d">>))
          @@ ("S3_SECRET_ACCESS_KEY" :> JStr(<<"p", "w">>)), Null),
      \* a lifetime that is no number
      Env(DirectVars(TxtUs, Null, TxtBucket, Null)
          @@ ("S3_SIGNED_URL_EXPIRES" :> JStr(TxtAb)), Null),
      \* nothing, no bucket, no region
      Env(NoFields, Null),
      Env(DirectVars(TxtUs, Null, Null, Null), Null),
      Env(DirectVars(Null, Null, Null, TxtBucket2), Null),
      \* only the secrets blob, as JSON
      Env(NoFields, SecretsJson(JObj(("AWS_REGION" :> JStr(TxtEu))
                                     @@ ("S3_BUCKET" :> JStr(TxtBucket2))))),
      \* a secondary direct variable and a primary name in the blob
      Env(DirectVars(Null, TxtUs, TxtBucket, Null),
          SecretsJson(JObj("AWS_REGION" :> JStr(TxtEu)))),
      \* the blob as lines
      Env(NoFields,
          SecretsLines(<< <<"AWS_REGION", "=", "u", "s">>,
                          <<" ", "S3_BUCKET", " ", "=", " ", "b", "2", " ">>,
                          <<" ">>,
                          <<"AWS_S3_BUCKET">>,
                          <<"=", "b", "k">>,
                          <<"AWS_REGION", "=", "e", "u">>,
                          <<"S3_REGION", "=">> >>)),
      \* a blob that is JSON but no object, or holds no text
      Env(DirectVars(TxtUs, Null, Null, Null), SecretsJson(JNum(Num(5, 0)))),
      Env(DirectVars(Null, Null, TxtBucket, Null),
          SecretsJson(JObj("AWS_REGION" :> JNum(Num(5, 0))))) }

TxtImagePng == <<"i", "m", "a", "g", "e", "/", "p", "n", "g">>
TxtPdf == <<"a", "p", "p", "l", "i", "c", "a", "t", "i", "o", "n", "/", "p", "d", "f">>
TxtImageUpper == <<"I", "m", "a", "g", "e", "/", "p", "n", "g">>
TxtSpImage == <<" ">> \o TxtImagePng
TxtScanPng == <<"s", "c", "a", "n", ".", "P", "N", "G">>
TxtScan == <<"s", "c", "a", "n">>
TxtScanDot == <<"a", ".", "b", ".">>

FileNameValues ==
    { Null, JStr(TxtEmpty), JStr(TxtTwoBlanks), JNum(Num(1, 0)),
      JStr(TxtScanPng), JStr(TxtScan), JStr(TxtScanDot) }

ContentTypeValues ==
    { Null, JNum(Num(1, 0)), JStr(TxtEmpty), JStr(TxtPdf), JStr(TxtImageUpper),
      JStr(TxtSpImage), JStr(TxtImageSlash), JStr(TxtImagePng) }

RequestBody(fileName, contentType) ==
    JObj([n \in { x \in {"fileName"} : fileName # Null } |-> fileName]
         @@ [n \in { x \in {"contentType"} : contentType # Null } |-> contentType]
         @@ ("sizeBytes" :> JNum(Num(1, 0))))

\* What request.json() yields: Null when the body is no JSON, else its value
RequestBodies ==
    { Null, JNum(Num(1, 0)), JArr(<<>>) }
    \cup { RequestBody(f, c) : f \in FileNameValues, c \in ContentTypeValues }

\* ======================================================================
\* Session cookie and route protection
\* ======================================================================
\* A pathname is a sequence of pieces ("/", a word, a suffix); the cookie
\* jar holds the auth_token cookie (Null when there is none) with the
\* attributes it was set with.

PathRoot == <<"/">>
PathLogin == <<"/", "login">>
PathLoginHelp == <<"/", "login", "/", "help">>
PathRegister == <<"/", "register">>
PathDashboard == <<"/", "dashboard">>
PathDashboardSub == <<"/", "dashboard", "/", "receipts">>
PathDashboards == <<"/", "dashboard", "s">>
PathTransactions == <<"/", "transactions">>
PathProfile == <<"/", "profile">>

Pathnames ==
    { PathRoot, PathLogin, PathLoginHelp, PathRegister, PathDashboard,
      PathDashboardSub, PathDashboards, PathTransactions, PathProfile }

Cookie(value, maxAge, secure) ==
    [value |-> value, path |-> "/", maxAge |-> maxAge, sameSite |-> "Lax",
     secure |-> secure]

\* request.cookies.get("auth_token")?.value: Null is undefined
RequestToken(jar) == IF jar = Null THEN Null ELSE JStr(jar.value)

\* truthiness of a text that may be undefined
TruthyText(text) == text # Null /\ text.v # <<>>

\* config.matcher (README.md:107-109)
MatcherMatches(pathname) ==
    \/ pathname \in {PathRoot, PathLogin, PathRegister, PathDashboard}
    \/ StartsWith(pathname, PathDashboard \o <<"/">>)

Redirect(to) == [t |-> "redirect", to |-> to]
PassThrough == [t |-> "next"]
Render == [t |-> "render"]

\* Mutant of middleware: an auth page redirects as soon as the cookie is
\* there, whatever its value.
middlewarePresenceOnly(pathname, jar) ==
    LET token == RequestToken(jar)
        isAuthPage == StartsWith(pathname, PathLogin) \/ StartsWith(pathname, PathRegister)
        isProtected == pathname = PathRoot \/ StartsWith(pathname, PathDashboard)
    IN  IF token # Null /\ isAuthPage THEN Redirect(PathDashboard)
        ELSE IF ~TruthyText(token) /\ isProtected THEN Redirect(PathLogin)
        ELSE PassThrough

\* middleware(request) (README.md:86-105)
middleware(pathname, jar) ==
    LET token == RequestToken(jar)
        isAuthPage == StartsWith(pathname, PathLogin) \/ StartsWith(pathname, PathRegister)
        isProtected == pathname = PathRoot \/ StartsWith(pathname, PathDashboard)
    IN  IF TruthyText(token) /\ isAuthPage THEN Redirect(PathDashboard)
        ELSE IF ~TruthyText(token) /\ isProtected THEN Redirect(PathLogin)
        ELSE PassThrough

\* DashboardPage (dashboard/page.tsx:5-13) and TransactionsPage
\* (part_004:624-632): the server components that look at the cookie.
GuardedPages == {PathDashboard, PathTransactions}

ServerPage(pathname, jar) ==
    IF pathname \in GuardedPages /\ ~TruthyText(RequestToken(jar))
    THEN Redirect(PathLogin)
    ELSE Render

\* The server's answer to a request: the middleware where the matcher
\* selects it, then the page.
Respond(pathname, jar) ==
    IF MatcherMatches(pathname) /\ middleware(pathname, jar) # PassThrough
    THEN middleware(pathname, jar)
    ELSE ServerPage(pathname, jar)

\* document.cookie.match(/(?:^|;\s*)auth_token=([^;]+)/): match[1], Null
\* when there is no match (no cookie, or one with an empty value).
CookieMatch(jar) == IF jar # Null /\ jar.value # <<>> THEN JStr(jar.value) ELSE Null

\* The mount effect of LoginPage (login/page.tsx:91-96)
LoginMountEffect(jar) ==
    IF CookieMatch(jar) # Null THEN Redirect(PathDashboard) ELSE Render

\* What the browser receives for a pathname: the server's answer, and for
\* the rendered login page what its mount effect does.
Answer(pathname, jar) ==
    IF Respond(pathname, jar) = Render /\ pathname = PathLogin
    THEN LoginMountEffect(jar)
    ELSE Respond(pathname, jar)

\* Number of redirects the browser follows in the model
MaxHops == 4

\* The navigation a request starts: the pathnames requested in turn with
\* the answer to each, the browser following every redirect.
RECURSIVE Navigation(_, _, _)
Navigation(pathname, jar, hops) ==
    LET answer == Answer(pathname, jar)
        hop == [pathname |-> pathname, response |-> answer]
    IN  IF answer.t = "redirect" /\ hops > 0
        THEN <<hop>> \o Navigation(answer.to, jar, hops - 1)
        ELSE <<hop>>

\* The page a navigation ends on
Landing(pathname, jar) ==
    LET hops == Navigation(pathname, jar, MaxHops) IN hops[Len(hops)].pathname

\* decodeURIComponent on the escapes of the blank, the semicolon and the
\* percent sign; another "%" is a malformed escape, which throws.
URIError == [t |-> "throws", error |-> "URIError"]
Escapes == (<<"2", "0">> :> " ") @@ (<<"3", "B">> :> ";") @@ (<<"2", "5">> :> "%")
RECURSIVE decodeURIComponent(_)
decodeURIComponent(s) ==
    IF s = <<>> THEN JStr(<<>>)
    ELSE IF Head(s) # "%"
    THEN LET rest == decodeURIComponent(Tail(s)) IN
         IF rest = URIError THEN URIError ELSE JStr(<<Head(s)>> \o rest.v)
    ELSE IF Len(s) >= 3 /\ SubSeq(s, 2, 3) \in DOMAIN Escapes
    THEN LET rest == decodeURIComponent(SubSeq(s, 4, Len(s))) IN
         IF rest = URIError THEN URIError ELSE JStr(<<Escapes[SubSeq(s, 2, 3)]>> \o rest.v)
    ELSE URIError

\* getAuthTokenFromCookie() (DashboardClient.tsx:271-277): the text it
\* returns, or the error it throws
getAuthTokenFromCookie(jar) ==
    IF CookieMatch(jar) # Null THEN decodeURIComponent(CookieMatch(jar).v) ELSE JStr(<<>>)

\* `${data.token}`: the text of a truthy JSON value
TemplateText(value) ==
    IF value.t = "jstr" THEN value.v
    ELSE IF value.t = "jnum" THEN StringOfNumber(value.v)
    ELSE IF value.t = "jbool" THEN <<"t", "r", "u", "e">>
    ELSE <<"[object Object]">>

\* truthiness of a JSON value (Null is null or undefined)
TruthyJson(value) ==
    /\ value # Null
    /\ value.t = "jstr" => value.v # <<>>
    /\ value.t = "jnum" => (value.v # NaN /\ value.v # Num(0, 0))
    /\ value.t = "jbool" => value.v

\* The assignment document.cookie = `auth_token=${value}; Path=/;
\* Max-Age=${maxAge}; SameSite=Lax${secure}`: the browser takes the value
\* up to the first ";", trimmed, and removes the cookie when Max-Age is 0.
WriteCookie(value, maxAge, secure) ==
    LET cut == IF IndexOf(value, ";") = 0 THEN value
               ELSE SubSeq(value, 1, IndexOf(value, ";") - 1)
    IN  IF maxAge <= 0 THEN Null ELSE Cookie(Trim(cut), maxAge, secure)

WeekSeconds == 604800

\* ---- the answers of POST /api/auth/login

TxtTok == <<"t", "o", "k">>
TxtTokEscaped == <<"a", "%", "2", "0", "b">>
TxtTokSemicolon == <<"a", ";", "b">>
TxtBadCredentials == <<"Bad credentials">>
MsgLoginFailed == <<"Login failed. Please try again.">>
MsgLoggedIn == <<"Logged in successfully. Redirecting...">>

LoginAnswer(ok, data) == [net |-> "response", ok |-> ok, data |-> data]

\* fetch rejects, or answers with a status and a body; data is Null when
\* the body is no JSON
LoginAnswers ==
    { NetworkError,
      LoginAnswer(FALSE, Null),
      LoginAnswer(FALSE, JObj("message" :> JStr(TxtBadCredentials))),
      LoginAnswer(FALSE, JObj("token" :> JStr(TxtTok))),
      LoginAnswer(TRUE, Null),
      LoginAnswer(TRUE, JObj(NoFields)),
      LoginAnswer(TRUE, JStr(TxtTok)),
      LoginAnswer(TRUE, JObj("token" :> JStr(TxtEmpty))),
      LoginAnswer(TRUE, JObj("token" :> JStr(TxtTok))),
      LoginAnswer(TRUE, JObj("token" :> JStr(TxtTokEscaped))),
      LoginAnswer(TRUE, JObj("token" :> JStr(TxtTokSemicolon))),
      LoginAnswer(TRUE, JObj("token" :> JStr(<<" ">>))),
      LoginAnswer(TRUE, JObj("token" :> JNum(Num(5, 0)))) }

\* data?.token and data?.message
DataField(data, key) ==
    IF data # Null /\ data.t = "jobj" THEN Get(data, key) ELSE Null

\* ---- the browser

AuthInit ==
    /\ protocol = "https:"
    /\ cookie = Null
    /\ location = PathLogin
    /\ navigation = <<>>
    /\ loginStatus = "idle"
    /\ loginMessage = <<>>
    /\ authEvent = "none"

\* The site is served over one protocol
AuthStart ==
    /\ protocol \in {"http:", "https:"}
    /\ cookie = Null
    /\ location = PathLogin
    /\ navigation = <<>>
    /\ loginStatus = "idle"
    /\ loginMessage = <<>>
    /\ authEvent = "none"

SecureNow == protocol = "https:"

\* The user opens a pathname (a link, the address bar)
Visit(pathname) ==
    /\ navigation = <<>>
    /\ navigation' = pathname
    /\ authEvent' = "visit"
    /\ UNCHANGED <<protocol, cookie, location, loginStatus, loginMessage, notAuthVars>>

\* The navigation under way completes: the browser follows the redirects
\* and mounts the page it ends on; a LoginPage mounts idle.
Arrive ==
    /\ navigation # <<>>
    /\ location' = Landing(navigation, cookie)
    /\ navigation' = <<>>
    /\ loginStatus' = "idle"
    /\ loginMessage' = <<>>
    /\ authEvent' = "arrive"
    /\ UNCHANGED <<protocol, cookie, notAuthVars>>

\* handleSubmit up to its fetch (login/page.tsx:98-108); the button is
\* disabled while the status is loading (login/page.tsx:193)
HandleSubmit ==
    /\ location = PathLogin
    /\ navigation = <<>>
    /\ loginStatus # "loading"
    /\ loginStatus' = "loading"
    /\ loginMessage' = <<>>
    /\ authEvent' = "submit"
    /\ UNCHANGED <<protocol, cookie, location, navigation, notAuthVars>>

\* handleSubmit from the answer of the fetch on (login/page.tsx:109-131)
LoginResponse(answer) ==
    /\ location = PathLogin
    /\ navigation = <<>>
    /\ loginStatus = "loading"
    /\ authEvent' = "loginResponse"
    /\ IF answer.net = "error"
       THEN /\ loginStatus' = "error"
            /\ loginMessage' = MsgNetwork
            /\ UNCHANGED <<cookie, navigation>>
       ELSE IF ~answer.ok
       THEN /\ loginStatus' = "error"
            /\ loginMessage' = IF TruthyJson(DataField(answer.data, "message"))
                               THEN DataField(answer.data, "message").v
                               ELSE MsgLoginFailed
            /\ UNCHANGED <<cookie, navigation>>
       ELSE /\ cookie' = IF TruthyJson(DataField(answer.data, "token"))
                      THEN WriteCookie(TemplateText(DataField(answer.data, "token")),
                                       WeekSeconds, SecureNow)
                      ELSE cookie
            /\ loginStatus' = "success"
            /\ loginMessage' = MsgLoggedIn
            /\ navigation' = PathDashboard
    /\ UNCHANGED <<protocol, location, notAuthVars>>

\* handleLogout (DashboardClient.tsx:638-642, profile/page.tsx:109-113)
HandleLogout ==
    /\ location \in {PathDashboard, PathProfile}
    /\ navigation = <<>>
    /\ cookie' = WriteCookie(<<>>, 0, SecureNow)
    /\ navigation' = PathLogin
    /\ authEvent' = "logout"
    /\ UNCHANGED <<protocol, location, loginStatus, loginMessage, notAuthVars>>

AuthNext ==
    \/ \E pathname \in Pathnames : Visit(pathname)
    \/ Arrive
    \/ HandleSubmit
    \/ \E answer \in LoginAnswers : LoginResponse(answer)
    \/ HandleLogout

\* ---- requests to the server, one at a time

Jars == { Null, Cookie(<<>>, WeekSeconds, FALSE), Cookie(TxtTok, WeekSeconds, TRUE) }

RequestCalls ==
    { [fn |-> "request", pathname |-> p, jar |-> j] : p \in Pathnames, j \in Jars }

\* ======================================================================
\* CSV export (TransactionsClient, part_004:419-453)
\* ======================================================================

\* String.prototype.replace(/"/g, "\"\"")
RECURSIVE DoubleQuotes(_)
DoubleQuotes(text) ==
    IF text = <<>> THEN <<>>
    ELSE IF Head(text) = "\"" THEN <<"\"", "\"">> \o DoubleQuotes(Tail(text))
    ELSE <<Head(text)>> \o DoubleQuotes(Tail(text))

\* Mutant of NeedsQuotes: the newline is forgotten.
NeedsQuotesWithoutNewline(text) ==
    \E i \in 1..Len(text) : text[i] \in {",", "\""}

\* text.includes(",") || text.includes("\"") || text.includes("\n")
\* (part_004:430)
NeedsQuotes(text) ==
    \E i \in 1..Len(text) : text[i] \in {",", "\"", "\n"}

\* String(value) of a field of a transaction: a text as it is, a number
\* in decimal notation
CsvString(value) ==
    IF value.t = "jstr" THEN value.v ELSE StringOfNumber(value)

\* escapeCsvValue(value) (part_004:425-434)
escapeCsvValue(value) ==
    IF value = Null THEN <<>>
    ELSE LET text == CsvString(value) IN
         IF NeedsQuotes(text) THEN <<"\"">> \o DoubleQuotes(text) \o <<"\"">>
         ELSE text

\* Array.prototype.join
RECURSIVE Join(_, _)
Join(parts, separator) ==
    IF parts = <<>> THEN <<>>
    ELSE IF Len(parts) = 1 THEN parts[1]
    ELSE parts[1] \o separator \o Join(Tail(parts), separator)

CsvHeader ==
    <<"i", "d", ",", "m", "e", "r", "c", "h", "a", "n", "t", ",",
      "a", "m", "o", "u", "n", "t", ",", "d", "a", "t", "e">>

\* transactions.filter((item) => selectedIds.includes(item.id))
\* (part_004:424)
ExportRows(list, selected) ==
    LET Test(item) == \E i \in 1..Len(selected) : selected[i] = item.id
    IN  SelectSeq(list, Test)

\* The line of one row (part_004:439-444)
CsvLine(item) ==
    Join(<<escapeCsvValue(JStr(item.id)), escapeCsvValue(JStr(item.merchant)),
           escapeCsvValue(item.amount), escapeCsvValue(item.date)>>, <<",">>)

\* handleExport up to the text of the file (part_004:419-446); Null when
\* it returns without exporting
ExportCsv(list, selected) ==
    IF Len(selected) = 0 THEN Null
    ELSE LET exportRows == ExportRows(list, selected) IN
         JStr(Join(<<CsvHeader>> \o [i \in 1..Len(exportRows) |-> CsvLine(exportRows[i])],
                   <<"\n">>))

\* ---- exported lists

TxtComma == <<"a", ",", "b">>
TxtQuote == <<"a", "\"", "b">>
TxtCommaQuote == <<"A", ",", " ", "\"", "B", "\"">>
TxtNewline == <<"a", "\n", "b">>
TxtReturn == <<"a", "\r", "b">>
TxtOnlyQuote == <<"\"">>
TxtDateWords == <<"M", "a", "r", " ", "1", ",", " ", "2", "0", "2", "4">>

CsvItem(id, merchant, amount, date) ==
    [id |-> id, merchant |-> merchant, amount |-> amount, date |-> date]

\* Transactions as normalizeTransactions yields them: texts are trimmed,
\* an amount is a number or null, a date a text or null.
CsvItems ==
    { CsvItem(Txt3, TxtAb, Num(125, 1), JStr(TxtMarch1)),
      CsvItem(Txt7, TxtComma, Null, Null),
      CsvItem(Txt7, TxtQuote, Num(0 - 3, 0), JStr(TxtDateWords)),
      CsvItem(Txt8, TxtCommaQuote, Num(12, 0), JStr(TxtMarch1)),
      CsvItem(Txt8, TxtNewline, Null, JStr(TxtNoDate)),
      CsvItem(Txt9, TxtReturn, Num(1, 0), Null),
      CsvItem(TxtComma, TxtOnlyQuote, Null, JStr(TxtMarch1)),
      CsvItem(TxtReceipt1, TxtUnknownMerchantOfList, Null, Null) }

\* The lists of one or two of them
CsvLists ==
    { <<a>> : a \in CsvItems } \cup { <<a, b>> : a \in CsvItems, b \in CsvItems }

\* Selections: nothing, the first row, the last row, every row, and an id
\* that no row has
CsvSelections(list) ==
    { <<>>, <<list[1].id>>, <<list[Len(list)].id>>,
      [i \in 1..Len(list) |-> list[i].id], <<Txt12>> }

ExportCalls ==
    UNION { { [fn |-> "handleExport", transactions |-> l, selectedIds |-> s] :
                s \in CsvSelections(l) } : l \in CsvLists }

\* ---- the calls
\* A behaviour of SpecFn is one call: it starts with the call made, and
\* the one step returns its result.  The page specifications make no call.

Pending == [t |-> "pending"]

NormalizeReceiptsCalls ==
    { [fn |-> "normalizeReceipts", payload |-> p] : p \in ListPayloads }

NormalizeTransactionsCalls ==
    { [fn |-> "normalizeTransactions", payload |-> p, offset |-> o] :
        p \in ListPayloads, o \in {0 - 11, 14} }

ToNumberCalls ==
    { [fn |-> "toNumber", page |-> page, value |-> v] :
        page \in {"dashboard", "detail"}, v \in NumberInputs }

GroupCalls ==
    { [fn |-> "groupTransactionsByYearAndMonth", transactions |-> l, offset |-> o] :
        l \in DatedLists(MaxEntries), o \in Offsets }

DisplayedCalls ==
    { [fn |-> "displayedTransactions", tab |-> t, transactions |-> l, now |-> now,
       offset |-> o] :
        t \in {"month", "all"}, l \in DatedLists(MaxEntries), now \in RenderInstants,
        o \in Offsets }

PostCalls ==
    { [fn |-> "POST", env |-> e, body |-> b, today |-> "2024-03-01", uuid |-> "uuid-1"] :
        e \in BrokerEnvs, b \in RequestBodies }

FnCalls ==
    NormalizeReceiptsCalls \cup NormalizeTransactionsCalls \cup ToNumberCalls
    \cup GroupCalls \cup DisplayedCalls \cup PostCalls \cup RequestCalls
    \cup ExportCalls

FnInit ==
    /\ fnCall = [fn |-> "none"]
    /\ fnResult = Pending

FnCallInit ==
    /\ fnCall \in FnCalls
    /\ fnResult = Pending

Called(fn) == fnCall.fn = fn /\ fnResult = Pending
Returned(fn) == fnCall.fn = fn /\ fnResult # Pending

CallNormalizeReceipts ==
    /\ Called("normalizeReceipts")
    /\ fnResult' \in { JArr(l) : l \in normalizeReceipts(fnCall.payload) }
    /\ UNCHANGED <<fnCall, notFnVars>>

CallNormalizeTransactions ==
    /\ Called("normalizeTransactions")
    /\ fnResult' \in { JArr(l) : l \in normalizeTransactions(fnCall.payload, fnCall.offset) }
    /\ UNCHANGED <<fnCall, notFnVars>>

CallToNumber ==
    /\ Called("toNumber")
    /\ fnResult' = IF fnCall.page = "dashboard" THEN toNumberOfList(fnCall.value)
                   ELSE toNumber(fnCall.value)
    /\ UNCHANGED <<fnCall, notFnVars>>

CallGroupTransactions ==
    /\ Called("groupTransactionsByYearAndMonth")
    /\ fnResult' \in { JArr(g) : g \in groupTransactionsByYearAndMonth(fnCall.transactions,
                                                                    fnCall.offset) }
    /\ UNCHANGED <<fnCall, notFnVars>>

CallDisplayedTransactions ==
    /\ Called("displayedTransactions")
    /\ fnResult' = JArr(DisplayedOf(fnCall.tab, fnCall.transactions, fnCall.now, fnCall.offset))
    /\ UNCHANGED <<fnCall, notFnVars>>

\* One request to the broker, answered; the signing library behaves in one
\* of the ways it can.
CallPost ==
    /\ Called("POST")
    /\ \E signing \in SigningOutcomes :
           fnResult' = POST(fnCall.env, fnCall.body, fnCall.today, fnCall.uuid, signing)
    /\ UNCHANGED <<fnCall, notFnVars>>

\* One request for a pathname, followed to the page it ends on.
CallRequest ==
    /\ Called("request")
    /\ fnResult' = JArr(Navigation(fnCall.pathname, fnCall.jar, MaxHops))
    /\ UNCHANGED <<fnCall, notFnVars>>

\* One press of the export button.
CallHandleExport ==
    /\ Called("handleExport")
    /\ fnResult' = ExportCsv(fnCall.transactions, fnCall.selectedIds)
    /\ UNCHANGED <<fnCall, notFnVars>>

FnNext ==
    \/ CallHandleExport
    \/ CallRequest
    \/ CallPost
    \/ CallNormalizeReceipts
    \/ CallNormalizeTransactions
    \/ CallToNumber
    \/ CallGroupTransactions
    \/ CallDisplayedTransactions

\* ===================================== dashboard: the other mount effects
\* (DashboardClient.tsx:336-490)

\* String.prototype.toUpperCase on the letters
toUpperCase(s) ==
    [i \in 1..Len(s) |->
        IF \E k \in 1..26 : LowerLetters[k] = s[i]
        THEN UpperLetters[CHOOSE k \in 1..26 : LowerLetters[k] = s[i]]
        ELSE s[i]]

\* username.split(" ").filter(Boolean): the words between single spaces
RECURSIVE Words(_, _)
Words(s, word) ==
    IF s = <<>> THEN (IF word = <<>> THEN <<>> ELSE <<word>>)
    ELSE IF Head(s) = " "
    THEN (IF word = <<>> THEN <<>> ELSE <<word>>) \o Words(Tail(s), <<>>)
    ELSE Words(Tail(s), Append(word, Head(s)))

\* The initials fetchUserProfile derives (DashboardClient.tsx:476-479).
InitialsOf(username) ==
    LET parts == Words(username, <<>>)
        first == IF Len(parts) >= 1 THEN <<parts[1][1]>> ELSE <<"U">>
        second == IF Len(parts) >= 2 THEN <<parts[2][1]>> ELSE <<>>
    IN  toUpperCase(first \o second)

TxtU == <<"U">>
TxtOther == <<"O", "t", "h", "e", "r">>
TxtFood == <<"F", "o", "o", "d">>
TxtEUR == <<"E", "U", "R">>
TxtJaneDoe == <<"j", "a", "n", "e", " ", " ", "d", "o", "e">>
TxtBobSp == <<" ", "b", "o", "b", " ">>

\* Outcomes of the three GETs: an OK status with an object body, an OK
\* status with a body that is no object, a non-OK status (whatever its
\* body), a network error.
Answers(payloads) ==
    { [kind |-> "ok", payload |-> p] : p \in payloads }
    \cup { [kind |-> k, payload |-> Null] : k \in {"notObject", "network"} }
    \cup { [kind |-> "notOk", payload |-> p] : p \in payloads }

StatsPayloads ==
    { JObj(("totalSpentThisMonth" :> JNum(Num(12, 0)))
           @@ ("receiptsProcessedThisMonth" :> JStr(Txt2))),
      JObj("totalSpentThisMonth" :> JStr(TxtAb)) }

CategoryPayloads ==
    { JObj(("currency" :> JStr(TxtEUR)) @@ ("totalSpent" :> JNum(Num(13, 0)))
           @@ ("categories" :>
                 JArr(<< JObj(("category" :> JStr(TxtFood)) @@ ("amount" :> JNum(Num(12, 0)))),
                         JObj(("category" :> JStr(TxtTwoBlanks)) @@ ("amount" :> JStr(Txt1))),
                         JObj(("category" :> JStr(TxtAb)) @@ ("amount" :> JNum(Num(0, 0)))),
                         JStr(TxtAb),
                         JObj("category" :> JStr(TxtCd)) >>))),
      JObj(("currency" :> JStr(TxtTwoBlanks)) @@ ("categories" :> JStr(TxtAb))) }

ProfilePayloads ==
    { JObj("username" :> JStr(TxtJaneDoe)),
      JObj("username" :> JStr(TxtBobSp)),
      JObj("username" :> JStr(TxtTwoBlanks)),
      JObj("username" :> JNum(Num(12, 0))) }

StatsOutcomes == Answers(StatsPayloads)
CategoryOutcomes == Answers(CategoryPayloads)
ProfileOutcomes == Answers(ProfilePayloads)

\* The stats fetchStats stores (DashboardClient.tsx:357-369).
StatsAfter(o) ==
    IF o.kind = "ok"
    THEN [totalSpentThisMonth |-> toNumber(Get(o.payload, "totalSpentThisMonth")),
          receiptsProcessedThisMonth |->
              toNumber(Get(o.payload, "receiptsProcessedThisMonth"))]
    ELSE StatsNone

NoCategoryStats == [currency |-> TxtUSD, totalSpent |-> Null, categories |-> <<>>]

\* One entry of payload.categories (DashboardClient.tsx:407-419): Null for
\* an entry that is no object or whose amount is not positive.
CategoryStatOf(item) ==
    LET itemObject == toObject(item)
        name == Get(itemObject, "category")
        amount == Coalesce(toNumber(Get(itemObject, "amount")), Num(0, 0))
    IN  IF itemObject = Null \/ amount.m <= 0 THEN Null
        ELSE [category |-> IF name.t = "jstr" /\ Trim(name.v) # <<>>
                           THEN Trim(name.v) ELSE TxtOther,
              amount |-> amount]

\* The category stats fetchCategoryStats stores (DashboardClient.tsx:405-438).
CategoryStatsAfter(o) ==
    IF o.kind = "ok"
    THEN LET raw == Get(o.payload, "categories")
             categoriesRaw == IF raw.t = "jarr" THEN raw.v ELSE <<>>
             currency == Get(o.payload, "currency")
         IN  [currency |-> IF currency.t = "jstr" /\ Trim(currency.v) # <<>>
                           THEN Trim(currency.v) ELSE TxtUSD,
              totalSpent |-> toNumber(Get(o.payload, "totalSpent")),
              categories |->
                  SelectSeq([i \in 1..Len(categoriesRaw) |->
                                CategoryStatOf(categoriesRaw[i])],
                            LAMBDA item : item # Null)]
    ELSE NoCategoryStats

\* The username fetchUserProfile reads (DashboardClient.tsx:465-470).
UsernameOf(o) ==
    IF o.payload # Null /\ Get(o.payload, "username").t = "jstr"
    THEN Trim(Get(o.payload, "username").v)
    ELSE <<>>

\* The initials after fetchUserProfile (DashboardClient.tsx:472-479).
InitialsAfter(o, current) ==
    IF o.kind # "ok" \/ UsernameOf(o) = <<>> THEN current
    ELSE InitialsOf(UsernameOf(o))

Unsettled == [kind |-> "pending", payload |-> Null]

\* fetchRecentReceipts() of the mount effect settles, seen together with
\* the other mount effects.
RecentResponse(o) ==
    /\ MountFetchSettles(o)
    /\ settled' = [settled EXCEPT !.recent = o]
    /\ UNCHANGED <<stats, categoryStats, isLoadingCategoryStats, userInitials,
                   statsFetch, categoryFetch, profileFetch>>
    /\ UNCHANGED notPageVars

\* Mutant of StatsResponse: a failed stats fetch also resets the category
\* stats.
StatsResponseResetsCategories(o) ==
    /\ statsFetch = "inflight"
    /\ statsFetch' = "done"
    /\ settled' = [settled EXCEPT !.stats = o]
    /\ stats' = IF mounted THEN StatsAfter(o) ELSE stats
    /\ categoryStats' = IF mounted /\ o.kind # "ok" THEN NoCategoryStats
                        ELSE categoryStats
    /\ UNCHANGED <<isLoadingCategoryStats, userInitials, categoryFetch,
                   profileFetch>>
    /\ UNCHANGED <<dashVars, notPageVars>>

\* fetchStats() settles (DashboardClient.tsx:347-370); its isMounted is
\* cleared by the cleanup of the effect.
StatsResponse(o) ==
    /\ statsFetch = "inflight"
    /\ statsFetch' = "done"
    /\ settled' = [settled EXCEPT !.stats = o]
    /\ stats' = IF mounted THEN StatsAfter(o) ELSE stats
    /\ UNCHANGED <<categoryStats, isLoadingCategoryStats, userInitials, categoryFetch,
                   profileFetch>>
    /\ UNCHANGED <<dashVars, notPageVars>>

\* fetchCategoryStats() settles (DashboardClient.tsx:393-444); the
\* setIsLoadingCategoryStats(true) of its start repeats the initial value.
CategoryStatsResponse(o) ==
    /\ categoryFetch = "inflight"
    /\ categoryFetch' = "done"
    /\ settled' = [settled EXCEPT !.category = o]
    /\ categoryStats' = IF mounted THEN CategoryStatsAfter(o) ELSE categoryStats
    /\ isLoadingCategoryStats' = IF mounted THEN FALSE ELSE isLoadingCategoryStats
    /\ UNCHANGED <<stats, userInitials, statsFetch, profileFetch>>
    /\ UNCHANGED <<dashVars, notPageVars>>

\* fetchUserProfile() settles (DashboardClient.tsx:464-480).
ProfileResponse(o) ==
    /\ profileFetch = "inflight"
    /\ profileFetch' = "done"
    /\ settled' = [settled EXCEPT !.profile = o]
    /\ userInitials' = IF mounted THEN InitialsAfter(o, userInitials) ELSE userInitials
    /\ UNCHANGED <<stats, categoryStats, isLoadingCategoryStats, statsFetch,
                   categoryFetch>>
    /\ UNCHANGED <<dashVars, notPageVars>>

DashFetchInit ==
    /\ stats = StatsNone
    /\ categoryStats = NoCategoryStats
    /\ isLoadingCategoryStats = TRUE
    /\ userInitials = TxtU
    /\ statsFetch = "inflight"
    /\ categoryFetch = "inflight"
    /\ profileFetch = "inflight"
    /\ settled = [recent |-> Unsettled, stats |-> Unsettled, category |-> Unsettled,
                  profile |-> Unsettled]

\* The four fetches of the dashboard's mount effects and its unmount.
DashFetchNext ==
    \/ \E o \in ListOutcomes : RecentResponse(o)
    \/ \E o \in StatsOutcomes : StatsResponse(o)
    \/ \E o \in CategoryOutcomes : CategoryStatsResponse(o)
    \/ \E o \in ProfileOutcomes : ProfileResponse(o)
    \/ Unmount

DashInit ==
    /\ mounted = TRUE
    /\ uploadState = "idle"
    /\ uploadMessage = ""
    /\ timer = FALSE
    /\ recentReceipts = <<>>
    /\ isLoadingRecentReceipts = TRUE
    /\ recentReceiptsError = ""
    /\ mountFetch = "inflight"
    /\ nsel = 0
    /\ hpc = [h \in Handlers |-> "idle"]
    /\ hfile = [h \in Handlers |-> NoFile]
    /\ hslot = [h \in Handlers |-> NoResponse]
    /\ hput = [h \in Handlers |-> "none"]
    /\ hparse = [h \in Handlers |-> "none"]
    /\ reqs = [h \in Handlers |-> ZeroReqs]

DashNext ==
    \/ \E o \in ListOutcomes : MountFetchResponse(o)
    \/ \E f \in FileTypes \cup {NoFile} : HandleFileSelect(f)
    \/ \E h \in Handlers, r \in SlotResponses : SlotResponse(h, r)
    \/ \E h \in Handlers, o \in PutOutcomes : PutResponse(h, o)
    \/ \E h \in Handlers, o \in ParseOutcomes : ParseResponse(h, o)
    \/ \E h \in Handlers, o \in ListOutcomes : RefreshResponse(h, o)
    \/ TimerFire
    \/ Unmount

\* ---- one navigation: dashboard, then receipt detail page, then away
\* The dashboard and the detail page share no state and the upload sequence
\* shares none with the stats, category and profile fetches, so the three
\* are followed one after the other instead of interleaved: the uploads
\* while the three fetches are in flight, the three fetches on a dashboard
\* without a selection, the detail page once the requests of the dashboard
\* that was left during an upload have completed.
OtherFetchesInFlight ==
    /\ statsFetch = "inflight"
    /\ categoryFetch = "inflight"
    /\ profileFetch = "inflight"

DashboardLeftBehind ==
    /\ ~mounted
    /\ nsel = 1
    /\ hpc[1] = "done"
    /\ uploadState = "uploading"
    /\ mountFetch = "done"
    /\ isLoadingRecentReceipts
    /\ OtherFetchesInFlight

NavListOutcomes == { o \in ListOutcomes : o.kind = "network" \/ o.list = <<"r1">> }
NavPayloads == {PayloadImage, PayloadLinked}
NavAnswers(outcomes) ==
    { o \in outcomes : o.kind = "network" }
    \cup { [kind |-> "ok", payload |-> p] : p \in NavPayloads }

NavigationNext ==
    \/ \E o \in NavListOutcomes : MountFetchResponse(o)
    \/ OtherFetchesInFlight /\ HandleFileSelect("image/jpeg")
    \/ \E h \in Handlers, r \in {GoodSlot, NetworkError} : SlotResponse(h, r)
    \/ \E h \in Handlers, o \in {"ok", "network"} : PutResponse(h, o)
    \/ \E h \in Handlers, o \in {"ok", "notOk"} : ParseResponse(h, o)
    \/ \E h \in Handlers, o \in NavListOutcomes : RefreshResponse(h, o)
    \/ TimerFire
    \/ Unmount
    \/ nsel = 0 /\ \E o \in { a \in StatsOutcomes : a.kind \in {"ok", "network"} } :
                      StatsResponse(o)
    \/ nsel = 0 /\ \E o \in { a \in CategoryOutcomes : a.kind \in {"ok", "network"} } :
                      CategoryStatsResponse(o)
    \/ nsel = 0 /\ \E o \in { a \in ProfileOutcomes : a.kind \in {"ok", "network"} } :
                      ProfileResponse(o)
    \/ DashboardLeftBehind /\ \E o \in NavAnswers(FetchOutcomes) : FetchReceiptResponse(o)
    \/ DashboardLeftBehind /\ HandleStartEdit
    \/ DashboardLeftBehind /\ HandleFieldChange("merchantName", TxtCd)
    \/ DashboardLeftBehind /\ HandleSaveReceipt
    \/ DashboardLeftBehind /\ \E o \in NavAnswers(SaveOutcomes) : SaveResponse(o)
    \/ DashboardLeftBehind /\ HandleReviewToggle
    \/ DashboardLeftBehind /\ \E o \in {"ok", "network"} : ReviewResponse(o)
    \/ DashboardLeftBehind /\ \E o \in PresignOutcomes : AttachmentResponse(o)
    \/ DashboardLeftBehind /\ \E o \in PresignOutcomes : StaleAttachmentResponse(o)
    \/ DashboardLeftBehind /\ DetailUnmount

Init == DashInit /\ DashFetchInit /\ DetailInit /\ TxInit /\ FnInit /\ AuthInit

\* The pages at rest and one call of a stateless helper made.
InitFn == DashInit /\ DashFetchInit /\ DetailInit /\ TxInit /\ FnCallInit /\ AuthInit

\* The pages at rest and a browser without a session on the login page.
InitAuth == DashInit /\ DashFetchInit /\ DetailInit /\ TxInit /\ FnInit /\ AuthStart

\* The browser session.
SpecAuth == InitAuth /\ [][AuthNext]_vars

\* The dashboard.
SpecUpload == Init /\ [][DashNext]_vars

\* A navigation from the dashboard to a receipt and away from it.
SpecNavigation == Init /\ [][NavigationNext]_vars

\* The dashboard's mount effects.
SpecDashFetch == Init /\ [][DashFetchNext]_vars

\* The timer callback is run by the browser once its delay has passed.
SpecUploadFair == SpecUpload /\ WF_vars(TimerFire)

\* The receipt detail page.
SpecDetail == Init /\ [][DetailNext]_vars

\* The receipt detail page: its requests and its unmount.
SpecDetailRequests == Init /\ [][DetailRequestsNext]_vars

\* The transactions page.
SpecTx == Init /\ [][TxNext]_vars

\* The stateless helpers, each applied to every input of its domain.
SpecFn == InitFn /\ [][FnNext]_vars

\* ================================================================ claims

UploadReqs(h) == <<reqs[h].slot, reqs[h].put, reqs[h].parse>>

\* Run h got as far as the success state (its parse request succeeded).
Succeeded(h) == hpc[h] \in {"refresh", "done"}

\* C1: uploadState only ever changes along the edges
\* {idle, success, error} -> uploading (a file is selected),
\* uploading -> parsing (the storage PUT succeeded), parsing -> success (the
\* parse succeeded), uploading -> error, parsing -> error and
\* success -> idle (the 3-second timer).
C1_UploadEdges ==
    [][ uploadState' # uploadState =>
          \/ /\ uploadState \in {"idle", "success", "error"}
             /\ uploadState' = "uploading"
             /\ nsel' = nsel + 1
          \/ /\ uploadState = "uploading"
             /\ uploadState' = "parsing"
             /\ \E h \in Handlers : hpc[h] = "put" /\ hput'[h] = "ok"
          \/ /\ uploadState = "parsing"
             /\ uploadState' = "success"
             /\ \E h \in Handlers : hpc[h] = "parse" /\ hparse'[h] = "ok"
          \/ /\ uploadState \in {"uploading", "parsing"}
             /\ uploadState' = "error"
          \/ /\ uploadState = "success"
             /\ uploadState' = "idle"
             /\ timer /\ ~timer' ]_vars

\* A second selection, started from the success state of the first, failed.
C1_Witness ==
    /\ nsel = 2
    /\ Succeeded(1)
    /\ hpc[2] = "failed"
    /\ uploadState = "error"

\* The slot response the claim asks for: an OK status, an imageId that is a
\* number or a string, and non-blank strings objectKey and uploadUrl.
ClaimSlotValid(r) ==
    /\ r.net = "response"
    /\ r.ok = TRUE
    /\ r.imageId = "number" \/ r.imageId = "string"
    /\ r.objectKey = "text"
    /\ r.uploadUrl = "text"

\* C2: within one file selection the storage PUT is issued only after a
\* valid slot response and the parse POST only after a successful PUT; a
\* run that leaves a step without issuing the next request has failed: it
\* issues nothing afterwards and uploadState (of the mounted component) is
\* error.
C2_RequestOrder ==
    [][ \A h \in Handlers :
          /\ reqs'[h].put > reqs[h].put =>
                hpc[h] = "slot" /\ ClaimSlotValid(hslot'[h])
          /\ reqs'[h].parse > reqs[h].parse =>
                hpc[h] = "put" /\ hput'[h] = "ok"
          /\ (hpc[h] = "slot" /\ hpc'[h] # "slot" /\ reqs'[h].put = reqs[h].put) =>
                hpc'[h] = "failed" /\ (mounted => uploadState' = "error")
          /\ (hpc[h] = "put" /\ hpc'[h] # "put" /\ reqs'[h].parse = reqs[h].parse) =>
                hpc'[h] = "failed" /\ (mounted => uploadState' = "error")
          /\ hpc[h] = "failed" => hpc'[h] = "failed" /\ reqs'[h] = reqs[h] ]_vars

\* A run whose slot request failed: no PUT, no parse, state error.
C2_Witness ==
    \E h \in Handlers :
        /\ hpc[h] = "failed"
        /\ reqs[h] = [slot |-> 1, put |-> 0, parse |-> 0, refresh |-> 0]
        /\ uploadState = "error"

C3_RefreshCount ==
    \A h \in Handlers :
        /\ Succeeded(h) => reqs[h].refresh = 1
        /\ ~Succeeded(h) => reqs[h].refresh = 0

C3_RefreshIssue ==
    \A h \in Handlers :
        reqs'[h].refresh > reqs[h].refresh =>
            /\ hpc[h] = "parse" /\ hparse'[h] = "ok"
            /\ mounted => uploadState' = "success"

\* C3: a file selection that reaches success has issued exactly one
\* recent-receipts refresh, issued when its parse request succeeded; a
\* selection that has not (yet) succeeded, in particular one that ended in
\* error, has issued none.
C3_OneRefresh == [](C3_RefreshCount) /\ [][C3_RefreshIssue]_vars

\* Both selections succeeded and each refreshed once.
C3_Witness ==
    /\ hpc[1] = "done" /\ hpc[2] = "done"
    /\ reqs[1].refresh = 1 /\ reqs[2].refresh = 1

\* C4: the completion of the refresh that follows a successful upload,
\* failed or not, changes neither uploadState nor the upload message nor
\* the timer; uploadState leaves success only by the timer (to idle) or by
\* a new file selection (to uploading).
C4_RefreshFailureKeepsSuccess ==
    [][ /\ \A h \in Handlers :
              (hpc[h] = "refresh" /\ hpc'[h] # "refresh") =>
                  /\ hpc'[h] = "done"
                  /\ UNCHANGED <<uploadState, uploadMessage, timer>>
        /\ (uploadState = "success" /\ uploadState' # "success") =>
              \/ uploadState' = "idle" /\ timer /\ ~timer'
              \/ uploadState' = "uploading" /\ nsel' = nsel + 1 ]_vars

\* The refresh of a successful upload failed; the upload still shows success.
C4_Witness ==
    \E h \in Handlers :
        /\ hpc[h] = "done"
        /\ recentReceiptsError # ""
        /\ recentReceipts = <<>>
        /\ ~isLoadingRecentReceipts
        /\ uploadState = "success"
        /\ uploadMessage = MsgSuccess

C5_TimerPendingOnlyInSuccess == timer => (mounted /\ uploadState = "success")

C5_Cancelled ==
    /\ ((mounted /\ ~mounted') \/ nsel' # nsel) => ~timer'
    /\ (uploadState' = "idle" /\ uploadState # "idle") =>
          (timer /\ mounted /\ uploadState = "success" /\ nsel' = nsel)

C5_EventuallyIdle ==
    \A k \in 0..MaxSelections :
        (uploadState = "success" /\ mounted /\ nsel = k)
            ~> ((uploadState = "idle" /\ uploadMessage = "") \/ ~mounted \/ nsel # k)

\* C5: once uploadState is success, and as long as the component stays
\* mounted and no new file is selected, uploadState eventually is idle with
\* an empty message; an unmount or a new selection cancels the pending
\* timer, which is pending in the success state of a mounted component
\* only, and nothing else resets the state to idle.
C5_SuccessAutoClears ==
    /\ [](C5_TimerPendingOnlyInSuccess)
    /\ [][C5_Cancelled]_vars
    /\ C5_EventuallyIdle

\* The timer has reset a successful upload.
C5_Witness ==
    /\ mounted
    /\ uploadState = "idle"
    /\ uploadMessage = ""
    /\ ~timer
    /\ \E h \in Handlers : Succeeded(h) /\ nsel = h

C6_AtMostOnce ==
    \A h \in Handlers :
        reqs[h].slot <= 1 /\ reqs[h].put <= 1 /\ reqs[h].parse <= 1

C6_NoneWhileError ==
    (uploadState = "error" /\ nsel' = nsel) =>
        \A h \in Handlers : UploadReqs(h)' = UploadReqs(h)

C6_ErrorIsQuiet ==
    uploadState = "error" => \A h \in Handlers : hpc[h] \notin {"slot", "put", "parse"}

\* C6: within one file selection each of the slot request, the storage PUT
\* and the parse POST is issued at most once; while uploadState is error no
\* upload request is in flight and none is issued until a file is selected
\* again.
C6_NoRetry ==
    /\ [](C6_AtMostOnce /\ C6_ErrorIsQuiet)
    /\ [][C6_NoneWhileError]_vars

\* A run that failed at its parse request, each request sent once.
C6_Witness ==
    \E h \in Handlers :
        /\ hpc[h] = "failed"
        /\ reqs[h] = [slot |-> 1, put |-> 1, parse |-> 1, refresh |-> 0]
        /\ uploadState = "error"
        /\ uploadMessage = MsgParseFailed

\* C7: for a selected file whose type is not image/*, the upload flow
\* issues no slot request, no storage PUT and no parse request.
C7_NonImageRejected ==
    \A h \in Handlers :
        (hfile[h] \in FileTypes /\ ~IsImageType(hfile[h])) => reqs[h] = ZeroReqs

\* The step is a run of handleSaveReceipt.
SaveClicked == saveClicks' = saveClicks + 1

C8_ShortCircuit ==
    /\ saveReqs' = saveReqs
    /\ savePending' = savePending
    /\ detail' = detail
    /\ editDetail' = editDetail
    /\ saveStatus' = "idle"
    /\ saveMessage' = MsgNoChanges

\* C8 as claimed: whenever isReceiptEdited(detail, editDetail) is false,
\* handleSaveReceipt issues no request, leaves detail and editDetail
\* unchanged and sets saveStatus to idle with "No changes to save.".
C8_NoChangeShortCircuits ==
    [][ (SaveClicked /\ ~isReceiptEdited(detail, editDetail)) => C8_ShortCircuit ]_vars

\* C8 as amended: the same, for a detail that has a receipt id (a non-zero
\* number) and with the Save button enabled.
C8_NoChangeShortCircuitsWithId ==
    [][ (SaveClicked /\ Truthy(detail.receiptId) /\ ~isReceiptEdited(detail, editDetail))
            => C8_ShortCircuit ]_vars

\* A save of an unchanged form of a receipt that has an id.
C8_Witness ==
    /\ saveClicks > 0
    /\ saveReqs = 0
    /\ DetailShown /\ Truthy(detail.receiptId)
    /\ isEditing
    /\ saveStatus = "idle"
    /\ saveMessage = MsgNoChanges

\* The number a numeric input shows: none for an empty input.
ClaimNumber(text) ==
    IF Trim(text) = <<>> THEN Null ELSE toComparableNumber(text)

NumericFields == {"subtotal", "tax", "total"}
ItemNumericFields == {"quantity", "unitPrice", "totalPrice"}

\* The form holds the numbers of the snapshot, however they are written.
C9_SameNumbers(d, e) ==
    /\ \A f \in NumericFields : ClaimNumber(e[f]) = d[f]
    /\ \A i \in 1..Len(d.items) : i <= Len(e.items) =>
          \A f \in ItemNumericFields : ClaimNumber(e.items[i][f]) = d.items[i][f]

C9_SameDescriptions(d, e) ==
    \A i \in 1..Len(d.items) : i <= Len(e.items) =>
        e.items[i].description = d.items[i].description

\* The form differs from the form built from the snapshot in nothing but
\* the way some numeric field is written.
C9_OnlyNumberFormChanged(d, e) ==
    LET built == buildEditableReceipt(d) IN
    /\ e # built
    /\ e.merchantName = built.merchantName
    /\ e.receiptDate = built.receiptDate
    /\ e.currency = built.currency
    /\ Len(e.items) = Len(d.items)
    /\ C9_SameDescriptions(d, e)
    /\ C9_SameNumbers(d, e)

\* C9: an edit that only changes the textual form of a numeric field is
\* not dirty; a changed item description, a changed numeric value or a
\* changed number of items is dirty.
C9_DirtyCheckIsNumeric ==
    FormShown =>
        /\ C9_OnlyNumberFormChanged(detail, editDetail)
              => ~isReceiptEdited(detail, editDetail)
        /\ ( \/ ~C9_SameNumbers(detail, editDetail)
             \/ ~C9_SameDescriptions(detail, editDetail)
             \/ Len(editDetail.items) # Len(detail.items) )
              => isReceiptEdited(detail, editDetail)

\* The step is a run of handleDelete.
DeleteClicked == deleteClicks' = deleteClicks + 1

\* The id reads as a positive integer.
ClaimValidId(id) ==
    LET n == NumberOfString(id) IN n # NaN /\ n.e = 0 /\ n.m >= 1

\* C10: a bulk delete goes out only if every selected id parses to a
\* positive integer; otherwise no DELETE is issued, bulkDeleteStatus is
\* error with the validation message, and the transactions and the
\* selection are unchanged.
C10_BulkDeleteValidates ==
    [][ DeleteClicked =>
          IF \A i \in 1..Len(selectedIds) : ClaimValidId(selectedIds[i])
          THEN deleteReqs' = deleteReqs + 1
          ELSE /\ deleteReqs' = deleteReqs
               /\ deletePending' = deletePending
               /\ bulkDeleteStatus' = "error"
               /\ bulkDeleteMessage' = MsgInvalidIds
               /\ transactions' = transactions
               /\ selectedIds' = selectedIds ]_vars

\* The selection ["3", "abc"] was refused.
C10_Witness ==
    /\ deleteClicks > 0
    /\ deleteReqs = 0
    /\ selectedIds = <<Txt3, TxtAbc>>
    /\ bulkDeleteStatus = "error"
    /\ bulkDeleteMessage = MsgInvalidIds
    /\ Len(transactions) = 3

\* ------------------------------------------------ claims on the helpers

ReturnedList == Returned("normalizeReceipts") \/ Returned("normalizeTransactions")

\* C11: every record a list normalizer returns has a non-empty id, and no
\* two records of one result have the same id.
C11_IdsNonEmptyAndUnique ==
    ReturnedList =>
        LET l == fnResult.v IN
        /\ \A i \in 1..Len(l) : l[i].id # <<>>
        /\ \A i, j \in 1..Len(l) : i # j => l[i].id # l[j].id

\* The timestamp the claim gives a record: that of its date, 0 when the
\* date is missing or does not parse.
ClaimTime(r) ==
    LET parsed == IF r.date = Null THEN NaN
                  ELSE IF fnCall.fn = "normalizeReceipts" THEN DateParse(r.date.v)
                  ELSE parseReceiptDate(r.date, fnCall.offset)
    IN  IF parsed = NaN \/ parsed = Null THEN 0 ELSE parsed.h

ClaimDated(r) ==
    /\ r.date # Null
    /\ IF fnCall.fn = "normalizeReceipts" THEN DateParse(r.date.v) # NaN
       ELSE parseReceiptDate(r.date, fnCall.offset) # Null

\* The records of the payload's array in their original order.
ClaimUnsorted ==
    IF fnCall.fn = "normalizeReceipts"
    THEN MapFilter(ReceiptsRaw(fnCall.payload), ReceiptOf)
    ELSE MapFilter(ReceiptsRaw(fnCall.payload), TransactionOf)

\* C12: the list a normalizer returns is in descending order of timestamp,
\* a record without a parsable date counting as timestamp 0 and coming
\* after every dated record, and records of equal timestamp are in their
\* original order.
C12_SortedByDateDescending ==
    ReturnedList =>
        LET l == fnResult.v
            SameTime(t) == LET Test(r) == ClaimTime(r) = t IN
                           SelectSeq(l, Test) = SelectSeq(ClaimUnsorted, Test)
        IN
        /\ \A i, j \in 1..Len(l) : i < j => ClaimTime(l[i]) >= ClaimTime(l[j])
        /\ \A i, j \in 1..Len(l) : (i < j /\ ClaimDated(l[j])) => ClaimDated(l[i])
        /\ \A i \in 1..Len(l) : SameTime(ClaimTime(l[i]))

\* The array the claim has the normalizer read.
ClaimArray(payload) ==
    CASE payload.t = "jarr" -> payload.v
      [] payload.t = "jobj" /\ Get(payload, "data").t = "jarr" -> Get(payload, "data").v
      [] payload.t = "jobj" /\ Get(payload, "data").t # "jarr"
            /\ Get(payload, "items").t = "jarr" -> Get(payload, "items").v
      [] payload.t = "jobj" /\ Get(payload, "data").t # "jarr"
            /\ Get(payload, "items").t # "jarr"
            /\ Get(payload, "receipts").t = "jarr" -> Get(payload, "receipts").v
      [] OTHER -> <<>>

ClaimObjectCount(a) == Cardinality({ i \in 1..Len(a) : a[i].t = "jobj" })

\* C13: a normalizer returns for a payload what it returns for the bare
\* array the payload holds (the payload itself, or the first array among
\* its fields data, items, receipts), the empty list when there is none;
\* it returns one record per object entry and always returns a list.
C13_WrapperIndependent ==
    ReturnedList =>
        LET a == ClaimArray(fnCall.payload) IN
        /\ fnResult.t = "jarr"
        /\ Len(fnResult.v) = ClaimObjectCount(a)
        /\ IF fnCall.fn = "normalizeReceipts"
           THEN fnResult.v \in normalizeReceipts(JArr(a))
           ELSE fnResult.v \in normalizeTransactions(JArr(a), fnCall.offset)

\* A payload with arrays under both data and items: the entry under data
\* is returned.
C13_Witness ==
    /\ Returned("normalizeReceipts")
    /\ fnCall.payload.t = "jobj"
    /\ Get(fnCall.payload, "data").t = "jarr"
    /\ Get(fnCall.payload, "items") = JArr(OtherArray)
    /\ Len(fnResult.v) = 1
    /\ fnResult.v[1].id = Txt8

\* The value the claim has toNumber return.
ClaimToNumber(value) ==
    CASE value.t = "jnum" /\ value.v.t = "num" -> value.v
      [] value.t = "jstr" /\ Trim(value.v) # <<>> /\ NumberOfString(value.v).t = "num"
            -> NumberOfString(value.v)
      [] OTHER -> Null

\* C14: toNumber returns the number for a finite number and for a numeric
\* string, and null for everything else, the empty and the blank string
\* included; it never returns NaN.
C14_ToNumberTotal ==
    Returned("toNumber") =>
        /\ fnResult # NaN
        /\ fnResult = ClaimToNumber(fnCall.value)

\* The status the claim derives from an entry.
ClaimNonBlank(object, key) ==
    Get(object, key).t = "jstr" /\ Trim(Get(object, key).v) # <<>>

ClaimStatus(object) ==
    CASE Get(object, "reviewed") = JBool(TRUE) -> TxtReviewed
      [] Get(object, "reviewed") = JBool(FALSE) -> TxtUnreview
      [] OTHER ->
            IF ClaimNonBlank(object, "status") THEN Trim(Get(object, "status").v)
            ELSE IF ClaimNonBlank(object, "processingStatus")
                 THEN Trim(Get(object, "processingStatus").v)
            ELSE IF ClaimNonBlank(object, "state") THEN Trim(Get(object, "state").v)
            ELSE TxtUnknown

\* C15: the status of every record of the dashboard list is "Reviewed" or
\* "Unreview" when the entry's reviewed field is true or false, whatever
\* its status fields hold; otherwise the first non-blank text (trimmed)
\* among status, processingStatus and state; otherwise "Unknown".
C15_StatusDerivation ==
    Returned("normalizeReceipts") =>
        LET raw == ClaimArray(fnCall.payload) IN
        \A i \in 1..Len(fnResult.v) :
            \E k \in 1..Len(raw) :
                /\ raw[k].t = "jobj"
                /\ TransactionOf(raw[k], k - 1) =
                       [f \in {"id", "merchant", "amount", "date"} |-> fnResult.v[i][f]]
                /\ fnResult.v[i].status = ClaimStatus(raw[k])

\* reviewed: true wins over status: "pending"; a padded " pending " of an
\* entry without reviewed is returned trimmed.
C15_Witness ==
    /\ Returned("normalizeReceipts")
    /\ Len(fnResult.v) = 2
    /\ fnResult.v[1].id = Txt7 /\ fnResult.v[1].status = TxtReviewed
    /\ Get(ClaimArray(fnCall.payload)[1], "status") = JStr(TxtPending)
    /\ fnResult.v[2].id = Txt8 /\ fnResult.v[2].status = TxtPending

\* The year and the month written in a YYYY-MM-DD text.
ClaimPureDate(date) ==
    /\ date # Null
    /\ IsDateOnly(date.v)
    /\ DateOnlyMonth(date.v) \in 1..12
    /\ DateOnlyDay(date.v) \in 1..31

\* Every pure date of the result's groups sits under its own year and month.
C16_GroupedUnderOwnMonth(minYear) ==
    Returned("groupTransactionsByYearAndMonth") =>
        \A g \in 1..Len(fnResult.v) :
            \A m \in 1..Len(fnResult.v[g].months) :
                \A i \in 1..Len(fnResult.v[g].months[m].items) :
                    LET date == fnResult.v[g].months[m].items[i].date IN
                    (ClaimPureDate(date) /\ DateOnlyYear(date.v) >= minYear) =>
                        /\ fnResult.v[g].year # TxtUnknown
                        /\ NumberOfString(fnResult.v[g].year) = Num(DateOnlyYear(date.v), 0)
                        /\ fnResult.v[g].months[m].month = MonthLabels[DateOnlyMonth(date.v)]

\* No transaction is lost or invented by the grouping.
C16_GroupsEveryItem ==
    Returned("groupTransactionsByYearAndMonth") =>
        \A k \in 1..Len(fnCall.transactions) :
            \E g \in 1..Len(fnResult.v) :
                \E m \in 1..Len(fnResult.v[g].months) :
                    \E i \in 1..Len(fnResult.v[g].months[m].items) :
                        fnResult.v[g].months[m].items[i] = fnCall.transactions[k]

\* The this-month tab shows a pure date exactly when its year and month
\* are the local year and month of the render.
C16_FilteredByOwnMonth(minYear) ==
    (Returned("displayedTransactions") /\ fnCall.tab = "month") =>
        LET today == CivilFromDays((fnCall.now.h + fnCall.offset) \div 24) IN
        \A k \in 1..Len(fnCall.transactions) :
            LET item == fnCall.transactions[k] IN
            (ClaimPureDate(item.date) /\ DateOnlyYear(item.date.v) >= minYear) =>
                ( (\E i \in 1..Len(fnResult.v) : fnResult.v[i] = item)
                  <=> ( /\ DateOnlyYear(item.date.v) = today.year
                        /\ DateOnlyMonth(item.date.v) = today.month ) )

\* C16 as claimed: every valid calendar date written YYYY-MM-DD is grouped
\* under year YYYY and month MM, and passes the this-month filter exactly
\* when YYYY and MM are the current local year and month, at every UTC
\* offset of the client.
C16_DateOnlyKeepsItsMonth ==
    /\ C16_GroupedUnderOwnMonth(0)
    /\ C16_GroupsEveryItem
    /\ C16_FilteredByOwnMonth(0)

\* C16 as amended: the same for the dates of the years 0100 to 9999.
C16_DateOnlyKeepsItsMonthFromYear100 ==
    /\ C16_GroupedUnderOwnMonth(100)
    /\ C16_GroupsEveryItem
    /\ C16_FilteredByOwnMonth(100)

\* West of UTC, "2024-01-31" and "2024-02-01" under JANUARY and FEBRUARY
\* of 2024.
C16_Witness ==
    /\ Returned("groupTransactionsByYearAndMonth")
    /\ fnCall.offset < 0
    /\ Len(fnCall.transactions) = 2
    /\ fnCall.transactions[1].date = JStr(TxtFeb1)
    /\ fnCall.transactions[2].date = JStr(TxtJan31)
    /\ Len(fnResult.v) = 1
    /\ fnResult.v[1].year = <<"2", "0", "2", "4">>
    /\ Len(fnResult.v[1].months) = 2
    /\ fnResult.v[1].months[1].month = "JANUARY"
    /\ fnResult.v[1].months[1].items = <<fnCall.transactions[2]>>
    /\ fnResult.v[1].months[2].month = "FEBRUARY"

\* ---- claims on the upload-URL broker

\* The contentType a request declares: the text of the body's contentType
\* field, <<>> when the body has none.
ClaimDeclaredContentType ==
    IF fnCall.body # Null /\ fnCall.body.t = "jobj"
       /\ Get(fnCall.body, "contentType").t = "jstr"
    THEN Get(fnCall.body, "contentType").v
    ELSE <<>>

ClaimNotAnImage ==
    \/ Len(ClaimDeclaredContentType) < 6
    \/ SubSeq(ClaimDeclaredContentType, 1, 6) # <<"i", "m", "a", "g", "e", "/">>

ClaimConfigured ==
    /\ ~RequiredEnvThrows(fnCall.env, RegionNames)
    /\ ~RequiredEnvThrows(fnCall.env, BucketNames)

\* C17 (as stated): every request whose declared contentType does not
\* begin with "image/" (or is missing) is answered with a 4xx response,
\* and no signed URL is generated for it.
C17_NonImageRejectedWith4xx ==
    (Returned("POST") /\ ClaimNotAnImage)
        => (fnResult.status \in 400..499 /\ fnResult.signed = <<>>)

\* C17 (amended): for every request whose declared contentType does not
\* begin with "image/", no signed URL is generated and the answer is an
\* error: a 400 when the region and the bucket are configured, a 500 when
\* one of them is missing from the configuration.
C17_NonImageRejected ==
    (Returned("POST") /\ ClaimNotAnImage)
        => /\ fnResult.signed = <<>>
           /\ fnResult.status = IF ClaimConfigured THEN 400 ELSE 500

C17_Witness ==
    /\ Returned("POST")
    /\ ClaimConfigured
    /\ ClaimDeclaredContentType = TxtPdf
    /\ Get(fnCall.body, "fileName") = JStr(TxtScanPng)
    /\ fnResult.status = 400
    /\ Get(fnResult.body, "message") = JStr(MsgOnlyImages)

ClaimIsText(value) == value.t = "jstr" /\ Trim(value.v) # <<>>

\* C18: the body of a successful answer of the broker carries imageId,
\* objectKey and uploadUrl, the fields the dashboard's slot request checks
\* before it transfers the file: the dashboard would accept the answer.
C18_SuccessBodyHasSlotFields ==
    (Returned("POST") /\ fnResult.status = 200)
        => /\ Get(fnResult.body, "imageId").t \in {"jnum", "jstr"}
           /\ ClaimIsText(Get(fnResult.body, "objectKey"))
           /\ ClaimIsText(Get(fnResult.body, "uploadUrl"))
           /\ SlotAccepted(SlotReading(fnResult))

\* ---- claims on route protection and the session cookie

\* "The cookie" is an auth_token cookie with a value: the middleware and
\* the pages read the value, so a cookie whose value is empty counts as
\* none everywhere.
ClaimHasToken == fnCall.jar # Null /\ fnCall.jar.value # <<>>

ClaimProtectedPath ==
    \/ fnCall.pathname = <<"/">>
    \/ fnCall.pathname = <<"/", "dashboard">>
    \/ /\ Len(fnCall.pathname) > 3
       /\ SubSeq(fnCall.pathname, 1, 3) = <<"/", "dashboard", "/">>

ClaimAuthPath == fnCall.pathname \in { <<"/", "login">>, <<"/", "register">> }

\* C19: a request to / or /dashboard/* without the cookie is redirected to
\* /login, a request to /login or /register with the cookie to /dashboard,
\* every other request the matcher selects passes through; with the
\* cookie unchanged the target of a redirect is not redirected again.
C19_RouteProtection ==
    Returned("request") =>
        LET hops == fnResult.v
            first == hops[1].response
        IN  /\ (ClaimProtectedPath /\ ~ClaimHasToken)
                   => first = [t |-> "redirect", to |-> <<"/", "login">>]
            /\ (ClaimAuthPath /\ ClaimHasToken)
                   => first = [t |-> "redirect", to |-> <<"/", "dashboard">>]
            /\ (ClaimProtectedPath /\ ClaimHasToken) => first.t # "redirect"
            /\ (ClaimAuthPath /\ ~ClaimHasToken) => first.t # "redirect"
            /\ \A i \in 2..Len(hops) : hops[i].response.t # "redirect"

C19_Witness ==
    /\ Returned("request")
    /\ fnCall.pathname = PathRoot
    /\ fnCall.jar = Null
    /\ fnResult.v = << [pathname |-> PathRoot, response |-> Redirect(PathLogin)],
                       [pathname |-> PathLogin, response |-> Render] >>

\* C20: a login attempt that ends in status success and navigates to
\* /dashboard has set the cookie (Max-Age one week, SameSite=Lax, Secure
\* exactly over HTTPS); a login attempt that fails leaves the cookie jar
\* as it was; after logout there is no cookie and the credential accessor
\* returns the empty string.
C20_CookieLifecycle ==
    [][ /\ (loginStatus = "loading" /\ loginStatus' = "success"
              /\ navigation' = <<"/", "dashboard">>)
            => /\ cookie' # Null
               /\ cookie'.maxAge = 604800
               /\ cookie'.sameSite = "Lax"
               /\ cookie'.secure = (protocol = "https:")
        /\ (loginStatus = "loading" /\ loginStatus' = "error") => cookie' = cookie
        /\ (authEvent # "logout" /\ authEvent' = "logout")
            => /\ cookie' = Null
               /\ getAuthTokenFromCookie(cookie') = JStr(<<>>) ]_vars

\* ---- claims on the CSV export

\* An RFC-4180 reader: the records of a text, each a sequence of fields.
\* A record ends at a line break (LF, CR or CRLF) outside quotes; inside
\* quotes "" is one quote.  mode is "start" (at the start of a field),
\* "plain", "quoted" or "closing" (after a quote inside a quoted field).
RECURSIVE ClaimCsvRead(_, _, _, _, _, _)
ClaimCsvRead(text, i, mode, field, row, rows) ==
    IF i > Len(text)
    THEN IF mode = "start" /\ row = <<>> THEN rows
         ELSE Append(rows, Append(row, field))
    ELSE LET c == text[i] IN
         IF mode = "quoted"
         THEN IF c = "\""
              THEN ClaimCsvRead(text, i + 1, "closing", field, row, rows)
              ELSE ClaimCsvRead(text, i + 1, "quoted", Append(field, c), row, rows)
         ELSE IF mode = "closing" /\ c = "\""
         THEN ClaimCsvRead(text, i + 1, "quoted", Append(field, c), row, rows)
         ELSE IF c = ","
         THEN ClaimCsvRead(text, i + 1, "start", <<>>, Append(row, field), rows)
         ELSE IF c \in {"\n", "\r"}
         THEN IF c = "\n" /\ i > 1 /\ text[i - 1] = "\r" /\ mode = "start" /\ row = <<>>
              THEN ClaimCsvRead(text, i + 1, "start", <<>>, <<>>, rows)
              ELSE ClaimCsvRead(text, i + 1, "start", <<>>, <<>>,
                                Append(rows, Append(row, field)))
         ELSE IF mode = "start" /\ c = "\""
         THEN ClaimCsvRead(text, i + 1, "quoted", <<>>, row, rows)
         ELSE ClaimCsvRead(text, i + 1, "plain", Append(field, c), row, rows)

ClaimText(value) ==
    IF value = Null THEN <<>>
    ELSE IF value.t = "jstr" THEN value.v
    ELSE StringOfNumber(value)

ClaimSelected(item) ==
    \E i \in 1..Len(fnCall.selectedIds) : fnCall.selectedIds[i] = item.id

ClaimSelectedRows == SelectSeq(fnCall.transactions, ClaimSelected)

ClaimHeaderRow ==
    << <<"i", "d">>, <<"m", "e", "r", "c", "h", "a", "n", "t">>,
       <<"a", "m", "o", "u", "n", "t">>, <<"d", "a", "t", "e">> >>

\* C21: read back by an RFC-4180 reader, the exported text is the header
\* id,merchant,amount,date followed by exactly one record for each
\* selected transaction, whose fields are that transaction's id, merchant,
\* amount and date as texts (a field with a comma, a quote or a newline
\* having been quoted, its quotes doubled).
C21_CsvRoundTrips ==
    (Returned("handleExport") /\ fnResult # Null)
        => ClaimCsvRead(fnResult.v, 1, "start", <<>>, <<>>, <<>>)
             = <<ClaimHeaderRow>>
               \o [i \in 1..Len(ClaimSelectedRows) |->
                     << ClaimSelectedRows[i].id, ClaimSelectedRows[i].merchant,
                        ClaimText(ClaimSelectedRows[i].amount),
                        ClaimText(ClaimSelectedRows[i].date) >>]

\* The same for the exports in which no field holds a carriage return.
ClaimNoReturn ==
    \A i \in 1..Len(fnCall.transactions) :
        \A k \in 1..Len(fnCall.transactions[i].merchant) :
            fnCall.transactions[i].merchant[k] # "\r"

C21_CsvRoundTripsWithoutReturn ==
    (Returned("handleExport") /\ ClaimNoReturn) => C21_CsvRoundTrips

\* ------------------------------------------------------------------ C30
\* The ids selectedIds holds that no displayed row carries.
HiddenSelectedIds ==
    { selectedIds[i] : i \in 1..Len(selectedIds) } \
    { displayedTransactions[j].id : j \in 1..Len(displayedTransactions) }

\* C30: after any sequence of selection toggles, tab switches and deletes,
\* every id in selectedIds belongs to a currently displayed transaction, so
\* a receipt hidden by the this-month filter is never deleted or exported.
C30_SelectionIsDisplayed == HiddenSelectedIds = {}

\* ------------------------------------------------------------------ C26
\* The edit form is as handleStartEdit filled it: no field was changed.
UntouchedEdit == isEditing /\ editDetail # Null /\ editDetail = buildEditableReceipt(detail)

\* C26: an untouched edit is never dirty: for the detail d on screen,
\* isReceiptEdited(d, buildEditableReceipt(d)) is false, so pressing save
\* without changing any field issues no PUT.
C26_UntouchedEditIsClean == UntouchedEdit => ~isReceiptEdited(detail, editDetail)

\* ------------------------------------------------------------------ C25
\* The lookup order as stated: the direct variables in the order of the
\* names, and the blob only when no direct variable holds a non-blank
\* value.
ClaimConfigText(value) ==
    IF value # Null /\ value.t = "jstr" THEN Trim(value.v) ELSE <<>>

RECURSIVE ClaimFirstDirect(_, _)
ClaimFirstDirect(env, names) ==
    IF names = <<>> THEN <<>>
    ELSE IF ClaimConfigText(Get(env.vars, Head(names))) # <<>>
    THEN ClaimConfigText(Get(env.vars, Head(names)))
    ELSE ClaimFirstDirect(env, Tail(names))

RECURSIVE ClaimFirstSecret(_, _)
ClaimFirstSecret(env, names) ==
    IF names = <<>> THEN <<>>
    ELSE IF ClaimConfigText(readAmplifySecrets(env, Head(names))) # <<>>
    THEN ClaimConfigText(readAmplifySecrets(env, Head(names)))
    ELSE ClaimFirstSecret(env, Tail(names))

ClaimLookup(env, names) ==
    IF ClaimFirstDirect(env, names) # <<>> THEN ClaimFirstDirect(env, names)
    ELSE ClaimFirstSecret(env, names)

\* C25: a configuration value is taken from the direct environment
\* variables (the AWS_* name, then the S3_* name) and from the secrets blob
\* only when neither direct variable holds a non-blank value; a required
\* value missing from all of them makes the request fail with a 500
\* response and no signed URL.
C25_LookupOrder ==
    Returned("POST") =>
        /\ (ClaimLookup(fnCall.env, RegionNames) = <<>>
            \/ ClaimLookup(fnCall.env, BucketNames) = <<>>)
               => (fnResult.status = 500 /\ fnResult.signed = <<>>)
        /\ \A i \in 1..Len(fnResult.signed) :
               /\ fnResult.signed[i].client.region = ClaimLookup(fnCall.env, RegionNames)
               /\ fnResult.signed[i].bucket = ClaimLookup(fnCall.env, BucketNames)

\* The part of C25 on a missing required value, which the handler keeps.
C25_MissingValueIs500 ==
    (Returned("POST")
     /\ (readFirstEnv(fnCall.env, RegionNames) = <<>>
         \/ readFirstEnv(fnCall.env, BucketNames) = <<>>))
        => (fnResult.status = 500 /\ fnResult.signed = <<>>)

\* ------------------------------------------------------------------ C29
\* C29: at most one mutating request of each kind is in flight at any
\* time: while a receipt save or a bulk delete is pending, invoking the
\* same handler again issues no second request of that kind.  (Here for
\* the receipt save, whose requests in flight savePending counts.)
C29_OneSaveInFlight == savePending <= 1

\* ------------------------------------------------------------------ C28
\* The runs of handleFileSelect that issued a recent-receipts refresh, and
\* those whose refresh has settled.  Run h + 1 starts after run h.
ClaimRefreshes == { h \in Handlers : reqs[h].refresh > 0 }
ClaimRefreshSettled(h) == reqs[h].refresh > 0 /\ hpc[h] = "done"

\* A recent-receipts response arrives for a request that was not the last
\* one issued, after the response of the last one: the mount fetch after
\* the only refresh, or the refresh of a run after that of a later run.
ClaimStaleListResponse ==
    \/ /\ mountFetch = "inflight" /\ mountFetch' = "done"
       /\ \E h \in Handlers : ClaimRefreshes = {h} /\ ClaimRefreshSettled(h)
    \/ /\ mountFetch = "done"
       /\ \E h, k \in Handlers :
             /\ h < k
             /\ ClaimRefreshes = {h, k}
             /\ ClaimRefreshSettled(k)
             /\ hpc[h] = "refresh" /\ hpc'[h] # "refresh"

\* C28: when two recent-receipts fetches overlap, the list displayed after
\* both have settled is the response of the request that was issued last:
\* a response that arrives after the response of a later request does not
\* change the list.
C28_LastIssuedWins ==
    [][ (mounted /\ ClaimStaleListResponse) => recentReceipts' = recentReceipts ]_vars

\* ------------------------------------------------------------------ C24
\* The step is the completion of a save request; detailEvent' names its
\* outcome.
ClaimSaveSettles == savePending' < savePending /\ detailEvent'.kind = "save"

\* The message of a failed save: the server's `error` text, else its
\* `message` text, else the text of the transport error, else the generic
\* message.
ClaimSaveFailureText(o) ==
    CASE o.kind = "notOkError" -> MsgServerError
      [] o.kind = "notOkMessage" -> MsgServer
      [] o.kind = "network" -> MsgNetwork
      [] o.kind \in {"notOk", "notObject"} -> MsgSaveFailed

\* C24: on a successful save detail and editDetail are rebuilt entirely
\* from the server's response, saveStatus becomes success and edit mode
\* ends; on a failed save (transport error, non-OK status, a body that is
\* no JSON object) detail, editDetail and isEditing are unchanged and
\* saveStatus becomes error with the server's text or a generic message.
C24_SaveOutcome ==
    [][ (detailMounted /\ ClaimSaveSettles) =>
            IF detailEvent'.outcome.kind = "ok"
            THEN /\ detail' = buildReceiptDetail(detailEvent'.outcome.payload)
                 /\ editDetail' = buildEditableReceipt(
                                      buildReceiptDetail(detailEvent'.outcome.payload))
                 /\ saveStatus' = "success"
                 /\ isEditing' = FALSE
            ELSE /\ detail' = detail
                 /\ editDetail' = editDetail
                 /\ isEditing' = isEditing
                 /\ saveStatus' = "error"
                 /\ saveMessage' = ClaimSaveFailureText(detailEvent'.outcome) ]_vars

\* A save of an edited form of the full receipt succeeded with a sparse
\* answer: nothing of the previous detail or of the form is left.
C24_Witness ==
    /\ detailEvent.kind = "save"
    /\ detailEvent.outcome.kind = "ok"
    /\ detailEvent.outcome.payload = PayloadSparse
    /\ detail = buildReceiptDetail(PayloadSparse)
    /\ detail.tax = Null
    /\ editDetail.tax = <<>>
    /\ saveStatus = "success"
    /\ ~isEditing
    /\ saveReqs > 0

\* ------------------------------------------------------------------ C27
\* The step is the successful completion of a review toggle on the mounted
\* page; detailEvent' carries the value its request body sent.
ClaimToggleSucceeds ==
    /\ detailMounted
    /\ Len(reviewPending') < Len(reviewPending)
    /\ detailEvent'.kind = "review"
    /\ detailEvent'.outcome = "ok"

\* C27: after a review toggle completes successfully, detail.reviewed
\* equals the value that was sent in that toggle's request body, also when
\* a receipt save completed between the toggle's request and its response.
C27_ToggleAppliesSentValue ==
    [][ ClaimToggleSucceeds => detail'.reviewed = JBool(detailEvent'.sent) ]_vars

\* ------------------------------------------------------------------ C23
\* The slice of state each of the four mount fetches of the dashboard owns.
ClaimRecentSlice == <<recentReceipts, isLoadingRecentReceipts, recentReceiptsError>>
ClaimStatsSlice == <<stats>>
ClaimCategorySlice == <<categoryStats, isLoadingCategoryStats>>
ClaimProfileSlice == <<userInitials>>

ClaimAllSettled ==
    /\ mountFetch = "done"
    /\ statsFetch = "done"
    /\ categoryFetch = "done"
    /\ profileFetch = "done"

\* The error text the recent-receipts slice ends with.
ClaimListError(o) ==
    CASE o.kind \in {"ok", "malformed"} -> ""
      [] o.kind = "notOkMessage" -> MsgServer
      [] o.kind = "notOk" -> MsgListFailed
      [] o.kind = "network" -> MsgNetwork

\* Once all four have settled on the mounted dashboard, each slice is what
\* its own fetch's outcome makes of it, whatever the order of completion.
C23_SettledState ==
    (mounted /\ ClaimAllSettled) =>
        /\ recentReceipts = ListAfter(settled.recent)
        /\ recentReceiptsError = ClaimListError(settled.recent)
        /\ ~isLoadingRecentReceipts
        /\ stats = StatsAfter(settled.stats)
        /\ categoryStats = CategoryStatsAfter(settled.category)
        /\ ~isLoadingCategoryStats
        /\ userInitials = InitialsAfter(settled.profile, TxtU)

\* The completion of one fetch, failed or not, leaves the slices of the
\* other three untouched.
C23_OwnSliceOnly ==
    /\ mountFetch' # mountFetch
          => UNCHANGED <<ClaimStatsSlice, ClaimCategorySlice, ClaimProfileSlice>>
    /\ statsFetch' # statsFetch
          => UNCHANGED <<ClaimRecentSlice, ClaimCategorySlice, ClaimProfileSlice>>
    /\ categoryFetch' # categoryFetch
          => UNCHANGED <<ClaimRecentSlice, ClaimStatsSlice, ClaimProfileSlice>>
    /\ profileFetch' # profileFetch
          => UNCHANGED <<ClaimRecentSlice, ClaimStatsSlice, ClaimCategorySlice>>

\* C23: the recent-receipts, monthly-stats, category-stats and profile
\* fetches each write only their own slice of state: the dashboard state
\* reached after all four have settled is the same for every order in
\* which they complete, and a failure of one leaves the slices of the
\* others untouched.
C23_IndependentFetches == [](C23_SettledState) /\ [][C23_OwnSliceOnly]_vars

\* All four settled on the mounted dashboard: the stats fetch failed, the
\* other three stored their answers.
C23_Witness ==
    /\ mounted
    /\ ClaimAllSettled
    /\ settled.stats.kind = "network"
    /\ stats = StatsNone
    /\ settled.category.kind = "ok"
    /\ Len(categoryStats.categories) = 2
    /\ categoryStats.currency = TxtEUR
    /\ userInitials = <<"J", "D">>
    /\ recentReceipts = <<"r1">>

\* ------------------------------------------------------------------ C22
\* The React state of the dashboard and of the receipt detail page.
ClaimDashboardState ==
    <<uploadState, uploadMessage, recentReceipts, isLoadingRecentReceipts,
      recentReceiptsError, stats, categoryStats, isLoadingCategoryStats, userInitials>>
ClaimDetailState ==
    <<detail, editDetail, status, saveStatus, saveMessage, isEditing, reviewStatus,
      reviewMessage, attachmentUrl, attachmentStatus>>

====
